---- MODULE Spec2Model ----
(***************************************************************************)
(* Model of the stairled-server animation runtime and sensor dispatch.     *)
(*                                                                         *)
(*   SpecAnim     one TimelineAnimation instance driven by                 *)
(*                setAbsolutePosition / setCurrentPosition / reset         *)
(*   SpecDispatch sensors, the /animation/* routes, the SENSOR_TRIGGERED   *)
(*                handler, timers and the per-animation render loops       *)
(*   SpecTimeLine one TimeLine: add / setStartTime / setCurrentPosition    *)
(*   SpecPins     the PinMapper: mapping, lookup cache, brightness writes  *)
(*   SpecBoot     device discovery, initPinMapper and the exit cleanup     *)
(*   SpecRegistry the animation registry under save and start requests     *)
(*   SpecConstruct the TimelineAnimation constructor and its validation    *)
(*   SpecImmediate a TimeLine holding one item of duration 0               *)
(*   SpecThreshold the sensors under every operator and threshold          *)
(*   SpecReplay   a TimeLine of two items started, ticked and reset        *)
(*   SpecGate     the SENSOR_TRIGGERED gate and its timeout, with fairness *)
(*   SpecSensors  the sensors' listeners and SENSOR_REMOVED                *)
(*   SpecSelfTest the startup self-test timeout next to the sensors        *)
(*   SpecSave     POST /pca9685 and setPinMapping with any argument        *)
(***************************************************************************)
EXTENDS Integers, Sequences, FiniteSets, TLC

VARIABLES
    anim,        \* the TimelineAnimation instance (record of its fields)
    animOp,      \* last method called on anim: [op, t, activeTicks]
    now,         \* wall clock, ms
    sensor,      \* sensor name -> [active, lastTriggered]
    sensorCfg,   \* sensor name -> [enabled, triggerType, triggerThreshold, triggerEffect]
    sensorTimer, \* sensor name -> deadline of the pending setTimeout, or Null
    strip,       \* animation name -> state of its current LedstripAnimation
    orphans,     \* LedstripAnimation instances replaced by initialize() while running
    current,     \* Effects.currentAnimation: an animation name or NoAnim
    appActive,   \* StairledApp.active
    appTimer,    \* deadline of the pending SENSOR_ANIM_FINISHED timeout, or Null
    log,         \* Stairlog records created, in order
    starts,      \* anim.start() calls made on behalf of sensors, in order
    requests,    \* number of HTTP requests and SENSOR_TRIGGERED events handled
    lastOp,      \* last handler that ran in the dispatcher: [op, who, value]
    line,        \* a TimeLine: [queue, startTime, currentPosition, duration, diff]
    lineOp,      \* last method called on line: [op, arg]
    pinMapping,  \* PinMapper.pinMapping: array of [step, driver, pin]
    lookupCache, \* PinMapper._lookupCache: [built, map]
    brightnesses, \* PinMapper.brightnesses: step -> value, Null where undefined
    duty,        \* the PCA9685 devices: driver -> channel -> [on, off]
    installedBy, \* the method that assigned pinMapping last
    pinOp,       \* last operation on the pin mapper
    bus,         \* I2C address -> answer to the MODE1 read, for the addresses probed
    stored,      \* config.get('pinmapper:mapping'): [isArray, entries]
    scanAddr,    \* discoverDevices: the address the scan probes next
    discoveredAddresses, \* discoverDevices: the addresses found so far
    drivers,     \* PinMapper.drivers: its keys in insertion order
    bootMapping, \* PinMapper.pinMapping during startup: [isArray, entries]
    bootCache,   \* PinMapper._lookupCache during startup: [built, map]
    phase,       \* position of StairledApp.initPinMapper
    cleanupCompleted, \* PinMapper.cleanupCompleted
    listening,   \* exitHandler is registered for the four process events
    closeCalls,  \* driver -> number of close() calls made on it
    bootOp,      \* last step of startup or shutdown
    registry,    \* animationService.animations: name -> [present, timeline, animation]
    regSensor,   \* sensor name -> its triggerEffect
    saved,       \* name -> the configuration saved last under it, if any
    regOp,       \* last request or sensor call that used the registry
    options,     \* the options passed to new TimelineAnimation(options)
    created,     \* what the constructor call left: [done, threw, error, duration]
    appSensors,  \* StairledApp.sensors: the names of the sensors it holds
    listeners,   \* the sensors whose sensordata listener is registered on the event bus
    removed,     \* the names for which a SENSOR_REMOVED event has been handled
    testTimer    \* deadline of the self-test timeout of initPinMapper, or Null

animVars == <<anim, animOp>>
dispVars == <<now, sensor, sensorCfg, sensorTimer, strip, orphans, current,
              appActive, appTimer, log, starts, requests, lastOp>>
lineVars == <<line, lineOp>>
pinVars == <<pinMapping, lookupCache, brightnesses, duty, installedBy, pinOp>>
bootVars == <<bus, stored, scanAddr, discoveredAddresses, drivers, bootMapping, bootCache,
              phase, cleanupCompleted, listening, closeCalls, bootOp>>
regVars == <<registry, regSensor, saved, regOp>>
conVars == <<options, created>>
appVars == <<appSensors, listeners, removed, testTimer>>
vars == <<animVars, dispVars, lineVars, pinVars, bootVars, regVars, conVars, appVars>>

\* JavaScript null (this.absoluteEnd = null); every time of the model is >= 0.
Null == -1

\* ToNumber(null) is 0 in the relational comparisons of setCurrentPosition.
Num(x) == IF x = Null THEN 0 ELSE x

Min(a, b) == IF a <= b THEN a ELSE b
Max(a, b) == IF a >= b THEN a ELSE b

(***************************************************************************)
(* IEEE-754 double arithmetic, as far as setCurrentPosition uses it:       *)
(*   Math.round((100 / duration) * (currentTime - absoluteStart))          *)
(* for an integer duration in 1..65535 and an integer difference below     *)
(* 65536 in magnitude.  The 53-bit significand of 100 / duration is held   *)
(* in four limbs of 13, 13, 13 and 14 bits, so that every intermediate     *)
(* value stays below 2^31.                                                 *)
(***************************************************************************)

\* n as exactly w bits, most significant first
IntToBits(n, w) == [i \in 1..w |-> (n \div (2 ^ (w - i))) % 2]

RECURSIVE BitsToInt(_)
BitsToInt(b) ==
    IF Len(b) = 0 THEN 0
    ELSE 2 * BitsToInt(SubSeq(b, 1, Len(b) - 1)) + b[Len(b)]

\* index of the first 1 of b (Len(b) + 1 when there is none)
FirstOne(b) ==
    LET ones == {i \in 1..Len(b) : b[i] = 1}
    IN  IF ones = {} THEN Len(b) + 1
        ELSE CHOOSE i \in ones : \A j \in ones : i <= j

\* b + 1 on a bit string; an all-ones string grows by one bit
Increment(b) ==
    LET zeros == {i \in 1..Len(b) : b[i] = 0}
    IN  IF zeros = {} THEN <<1>> \o [i \in 1..Len(b) |-> 0]
        ELSE LET z == CHOOSE i \in zeros : \A j \in zeros : i >= j
             IN  [i \in 1..Len(b) |-> IF i < z THEN b[i] ELSE IF i = z THEN 1 ELSE 0]

\* Round the binary integer b * 2^e to 53 significant bits, ties to even.
\* The result is [m |-> bits, e |-> exponent]: the integer m writes, times 2^e.
RoundToDouble(b, e) ==
    LET s == SubSeq(b, FirstOne(b), Len(b))
    IN  IF Len(s) <= 53 THEN [m |-> s, e |-> e]
        ELSE LET keep  == SubSeq(s, 1, 53)
                 tail  == SubSeq(s, 55, Len(s))
                 up    == s[54] = 1 /\ (FirstOne(tail) <= Len(tail) \/ keep[53] = 1)
                 r     == IF up THEN Increment(keep) ELSE keep
                 drop  == Len(s) - 53
             IN  IF Len(r) > 53
                 THEN [m |-> SubSeq(r, 1, 53), e |-> e + drop + 1]
                 ELSE [m |-> r, e |-> e + drop]

\* The double nearest to 100 / d: limbs l (13, 13, 13, 14 bits) and exponent e.
HundredOver(d) ==
    LET j  == CHOOSE k \in 0..23 : (100 * 2^k) \div d \in 4096..8191
        n0 == 100 * 2^j
        q0 == n0 \div d
        r0 == n0 % d
        q1 == (r0 * 8192) \div d
        r1 == (r0 * 8192) % d
        q2 == (r1 * 8192) \div d
        r2 == (r1 * 8192) % d
        q3 == (r2 * 16384) \div d
        r3 == (r2 * 16384) % d
        guard  == (2 * r3) \div d
        sticky == (2 * r3) % d # 0
        up == guard = 1 /\ (sticky \/ q3 % 2 = 1)
        c3 == IF up /\ q3 = 16383 THEN 1 ELSE 0
        c2 == IF c3 = 1 /\ q2 = 8191 THEN 1 ELSE 0
        c1 == IF c2 = 1 /\ q1 = 8191 THEN 1 ELSE 0
        c0 == IF c1 = 1 /\ q0 = 8191 THEN 1 ELSE 0
    IN  IF c0 = 1 THEN [l |-> <<4096, 0, 0, 0>>, e |-> 1 - (j + 40)]
        ELSE [l |-> <<q0 + c1,
                      (q1 + c2) % 8192,
                      (q2 + c3) % 8192,
                      (q3 + (IF up THEN 1 ELSE 0)) % 16384>>,
              e |-> 0 - (j + 40)]

\* the double nearest to x * k, for x from HundredOver and an integer 0 <= k < 65536
TimesInt(x, k) ==
    LET p3 == x.l[4] * k
        p2 == x.l[3] * k + p3 \div 16384
        p1 == x.l[2] * k + p2 \div 8192
        p0 == x.l[1] * k + p1 \div 8192
    IN  RoundToDouble(IntToBits(p0, 30) \o IntToBits(p1 % 8192, 13)
                        \o IntToBits(p2 % 8192, 13) \o IntToBits(p3 % 16384, 14),
                      x.e)

\* floor and fraction of a double y >= 0: ip = floor(y), half = the 1/2 bit,
\* rest = some lower fraction bit is set
Split(y) ==
    LET n == Len(y.m)
        k == n + y.e          \* number of bits left of the binary point
    IN  IF y.e >= 0
        THEN [ip |-> BitsToInt(y.m) * 2^(y.e), half |-> 0, rest |-> FALSE]
        ELSE IF k <= 0
        THEN [ip |-> 0,
              half |-> IF k = 0 /\ n > 0 THEN y.m[1] ELSE 0,
              rest |-> IF k = 0 THEN FirstOne(SubSeq(y.m, 2, n)) <= n - 1 ELSE n > 0]
        ELSE [ip |-> BitsToInt(SubSeq(y.m, 1, k)),
              half |-> y.m[k + 1],
              rest |-> FirstOne(SubSeq(y.m, k + 2, n)) <= n - k - 1]

\* Math.round(y): ties go up (towards +Infinity), also for a negative argument
MathRound(y, negative) ==
    LET s == Split(y)
    IN  IF negative
        THEN 0 - (s.ip + (IF s.half = 1 /\ s.rest THEN 1 ELSE 0))
        ELSE s.ip + s.half

\* stand-in for the values NaN and -Infinity of a progress
NonFinite == 0 - 1000

\* the progress expression for duration 0: 100 / 0 is Infinity, which times
\* a positive difference rounds to Infinity (capped at 100), times 0 is NaN
\* and times a negative difference is -Infinity
ZeroDurationProgress(delta) == IF delta > 0 THEN 100 ELSE NonFinite

\* Math.min(Math.round((100 / duration) * delta), 100), duration >= 1
ProgressAt(duration, delta) ==
    IF duration = 0 THEN ZeroDurationProgress(delta)
    ELSE LET x == HundredOver(duration)
             y == TimesInt(x, IF delta < 0 THEN 0 - delta ELSE delta)
         IN  Min(MathRound(y, delta < 0), 100)

(***************************************************************************)
(* TimelineAnimation (animations/TimelineAnimation.js) as operators on the *)
(* record of an instance's fields.  onStartCalls counts the onStart()      *)
(* invocations of the current activation (since construction or reset()).  *)
(***************************************************************************)

\* constructor: options.duration is a positive number here
NewAnimation(duration) ==
    [duration        |-> duration,
     relativeStart   |-> 0,
     absoluteStart   |-> 0,
     absoluteEnd     |-> Null,
     absoluteCurrent |-> Null,
     progress        |-> 0,
     active          |-> FALSE,
     ended           |-> FALSE,
     started         |-> FALSE,
     onStartCalls    |-> 0]

reset(a) ==
    [a EXCEPT !.progress = 0, !.active = FALSE, !.ended = FALSE,
              !.started = FALSE, !.absoluteStart = 0, !.absoluteEnd = Null,
              !.absoluteCurrent = Null, !.onStartCalls = 0]

setAbsolutePosition(a, t) ==
    [a EXCEPT !.absoluteStart = t, !.absoluteEnd = t + a.duration]

\* PositionWindow without the `if (!this.started)` guard around onStart()
PositionWindowUnguarded(a, t) ==
    IF (t >= a.absoluteStart /\ t <= Num(a.absoluteEnd)) \/ (a.active /\ ~a.ended)
    THEN [a EXCEPT !.started = TRUE,
                   !.onStartCalls = @ + 1,
                   !.active = TRUE,
                   !.absoluteCurrent = t,
                   !.progress = ProgressAt(a.duration, t - a.absoluteStart)]
    ELSE [a EXCEPT !.active = FALSE, !.absoluteCurrent = Null]

\* first if/else of setCurrentPosition: the active window, onStart, progress
PositionWindow(a, t) ==
    IF (t >= a.absoluteStart /\ t <= Num(a.absoluteEnd)) \/ (a.active /\ ~a.ended)
    THEN [a EXCEPT !.started = TRUE,
                   !.onStartCalls = IF a.started THEN @ ELSE @ + 1,
                   !.active = TRUE,
                   !.absoluteCurrent = t,
                   !.progress = ProgressAt(a.duration, t - a.absoluteStart)]
    ELSE [a EXCEPT !.active = FALSE, !.absoluteCurrent = Null]

\* PositionClamp that latches ended but forgets progress = 100
PositionClampNoProgress(a, t) ==
    IF t >= Num(a.absoluteEnd) THEN [a EXCEPT !.ended = TRUE]
    ELSE IF t < a.absoluteStart THEN [a EXCEPT !.progress = 0]
    ELSE a

\* PositionClamp without the else-if for a time before the start
PositionClampEndOnly(a, t) ==
    IF t >= Num(a.absoluteEnd) THEN [a EXCEPT !.progress = 100, !.ended = TRUE]
    ELSE a

\* second if/else-if of setCurrentPosition: clamping at the ends
PositionClamp(a, t) ==
    IF t >= Num(a.absoluteEnd) THEN [a EXCEPT !.progress = 100, !.ended = TRUE]
    ELSE IF t < a.absoluteStart THEN [a EXCEPT !.progress = 0]
    ELSE a

setCurrentPosition(a, t) == PositionClamp(PositionWindow(a, t), t)

(***************************************************************************)
(* SpecAnim: one animation, every order of arming, ticking and resetting.  *)
(***************************************************************************)
TimeUnit == 500
MaxTicks == 5
\* animOp.activeTicks counts the ticks of this activation that left the
\* animation active, up to this many
MaxActiveTicks == 2
Durations == {232, 1000}
ArmTimes == {0, 2 * TimeUnit}
TickTimes == {k * TimeUnit : k \in 0..MaxTicks} \cup {t + 145 : t \in ArmTimes}

\* the dispatcher's variables stay at their initial value under SpecAnim
\* a TimeLine nobody uses
LineIdle ==
    /\ line = <<>>
    /\ lineOp = <<>>

\* a PinMapper without drivers that nobody uses
PinIdle ==
    /\ pinMapping = <<>>
    /\ lookupCache = <<>>
    /\ brightnesses = <<>>
    /\ duty = <<>>
    /\ installedBy = "constructor"
    /\ pinOp = <<>>

\* a process that is not starting up or shutting down
BootIdle ==
    /\ bus = <<>>
    /\ stored = <<>>
    /\ scanAddr = Null
    /\ discoveredAddresses = <<>>
    /\ drivers = <<>>
    /\ bootMapping = <<>>
    /\ bootCache = <<>>
    /\ phase = "idle"
    /\ cleanupCompleted = FALSE
    /\ listening = FALSE
    /\ closeCalls = <<>>
    /\ bootOp = <<>>

\* a registry nobody uses
RegIdle ==
    /\ registry = <<>>
    /\ regSensor = <<>>
    /\ saved = <<>>
    /\ regOp = <<>>

\* no animation under construction
ConIdle ==
    /\ options = <<>>
    /\ created = <<>>

\* an application whose sensor list and self-test nobody looks at
AppIdle ==
    /\ appSensors = {}
    /\ listeners = {}
    /\ removed = {}
    /\ testTimer = Null

DispIdle ==
    /\ now = 0
    /\ sensor = <<>>
    /\ sensorCfg = <<>>
    /\ sensorTimer = <<>>
    /\ strip = <<>>
    /\ orphans = {}
    /\ current = "none"
    /\ appActive = FALSE
    /\ appTimer = Null
    /\ log = <<>>
    /\ starts = <<>>
    /\ requests = 0
    /\ lastOp = [op |-> "init", who |-> "none", value |-> 0]

AnimInit ==
    /\ \E d \in Durations : anim = NewAnimation(d)
    /\ animOp = [op |-> "new", t |-> Null, activeTicks |-> 0]
    /\ DispIdle
    /\ LineIdle
    /\ PinIdle
    /\ BootIdle
    /\ RegIdle
    /\ ConIdle
    /\ AppIdle

Arm ==
    /\ \E t \in ArmTimes :
         /\ anim' = setAbsolutePosition(anim, t)
         /\ animOp' = [op |-> "setAbsolutePosition", t |-> t,
                       activeTicks |-> animOp.activeTicks]
    /\ UNCHANGED <<dispVars, lineVars, pinVars, bootVars, regVars, conVars, appVars>>

Tick ==
    /\ \E t \in TickTimes :
         /\ anim' = setCurrentPosition(anim, t)
         /\ animOp' = [op |-> "setCurrentPosition", t |-> t,
                       activeTicks |-> IF anim'.active
                                       THEN Min(animOp.activeTicks + 1, MaxActiveTicks)
                                       ELSE animOp.activeTicks]
    /\ UNCHANGED <<dispVars, lineVars, pinVars, bootVars, regVars, conVars, appVars>>

Reset ==
    /\ anim' = reset(anim)
    /\ animOp' = [op |-> "reset", t |-> Null, activeTicks |-> 0]
    /\ UNCHANGED <<dispVars, lineVars, pinVars, bootVars, regVars, conVars, appVars>>

AnimNext == Arm \/ Tick \/ Reset

SpecAnim == AnimInit /\ [][AnimNext]_vars

\* the state right after setCurrentPosition(t) on an armed animation
Ticked == animOp.op = "setCurrentPosition" /\ anim.absoluteEnd # Null

(***************************************************************************)
(* The dispatcher: Sensor (Sensor.js), the /animation/* routes of Effects,  *)
(* the SENSOR_TRIGGERED handler of StairledApp and StairAnimation.          *)
(* LedstripAnimation (animationengine/LedstripAnimation.js) is not part of  *)
(* the sources at hand; its start/stop/loop follow the engine contract:     *)
(* start arms the timeline at `now` and runs, a start while running is      *)
(* rejected, stop takes effect at the next tick, the loop stops once        *)
(* now > absolute end.                                                      *)
(***************************************************************************)
StepMs == 1000
MaxTime == 2000
MaxLog == 2
MaxRequests == 2
DebounceMs == 2000

SensorNames == {"A", "B"}
AnimNames == {"fade1", "fade2"}
NoAnim == "none"
\* the names a POST /animation/start may carry
RequestNames == {"fade1", "ghost"}
SampleValues == {300, 400, 600}

\* the timeline items (start offset, duration) of the configured animations
AnimConfig ==
    [fade1 |-> <<[at |-> 0, duration |-> 1000]>>,
     fade2 |-> <<[at |-> 0, duration |-> 1000], [at |-> 2000, duration |-> 1000]>>]

\* TimeLine.add that takes the end of the item added last as the duration
AddDurationOverwrite(duration, item) == item.at + item.duration

\* TimeLine.add: the container's duration after adding an item
AddDuration(duration, item) ==
    IF duration <= item.at + item.duration THEN item.at + item.duration ELSE duration

RECURSIVE DurationOf(_)
\* duration of a TimeLine built by add() over the items, in order
DurationOf(items) ==
    IF Len(items) = 0 THEN 0
    ELSE AddDuration(DurationOf(SubSeq(items, 1, Len(items) - 1)), items[Len(items)])

\* sensor.anim.animation.timeline.duration
TimelineDuration(name) == DurationOf(AnimConfig[name])

\* the sensor tables the configuration may hold
SensorTables ==
    { [A |-> [enabled |-> TRUE,  triggerType |-> "<=", triggerThreshold |-> 500,
              triggerEffect |-> "fade1"],
       B |-> [enabled |-> TRUE,  triggerType |-> "<=", triggerThreshold |-> 500,
              triggerEffect |-> "fade2"]],
      [A |-> [enabled |-> FALSE, triggerType |-> "<=", triggerThreshold |-> 500,
              triggerEffect |-> "fade1"],
       B |-> [enabled |-> TRUE,  triggerType |-> ">=", triggerThreshold |-> 500,
              triggerEffect |-> "fade2"]],
      [A |-> [enabled |-> TRUE,  triggerType |-> "==", triggerThreshold |-> 400,
              triggerEffect |-> "ghost"],
       B |-> [enabled |-> TRUE,  triggerType |-> "<=", triggerThreshold |-> 500,
              triggerEffect |-> "fade1"]] }

\* lastOp after a step that is neither a sample nor a start request
Other == [op |-> "other", who |-> NoAnim, value |-> 0]

\* a lookup that falls back to the first registered animation
SensorAnimOrFirst(s) ==
    IF sensorCfg[s].triggerEffect \in AnimNames THEN sensorCfg[s].triggerEffect
    ELSE "fade1"

\* this.anim = animationService.animations.get(this.triggerEffect)
SensorAnim(s) ==
    IF sensorCfg[s].triggerEffect \in AnimNames THEN sensorCfg[s].triggerEffect ELSE NoAnim

\* a LedstripAnimation as created by StairAnimation.initialize()
IdleStrip == [state |-> "IDLE", startedAt |-> Null, end |-> Null]

\* a LedstripAnimation that stops at its next tick
StoppingStrip == [state |-> "STOPPING", startedAt |-> Null, end |-> Null]

\* LedstripAnimation.start()
LedstripStart(st, name) ==
    IF st.state = "IDLE"
    THEN [state |-> "RUNNING", startedAt |-> now, end |-> now + TimelineDuration(name)]
    ELSE st

\* LedstripAnimation.stop()
LedstripStop(st) ==
    IF st.state = "RUNNING" THEN StoppingStrip ELSE st

\* one iteration of the render loop of a LedstripAnimation
LedstripLoop(st) ==
    IF st.state = "RUNNING" /\ now > st.end THEN StoppingStrip
    ELSE IF st.state = "STOPPING" THEN IdleStrip
    ELSE st

\* StairAnimation.start(): this.animation.start()
StairStart(strips, name) ==
    [strips EXCEPT ![name] = LedstripStart(@, name)]

\* StairAnimation.stop(): this.animation.stop()
StairStop(strips, name) ==
    [strips EXCEPT ![name] = LedstripStop(@)]

\* StairAnimation.updateConfig() -> initialize(): this.animation becomes a new
\* LedstripAnimation; the instance it replaces is not stopped
StairInitialize(strips, name) ==
    [strips EXCEPT ![name] = IdleStrip]

\* the instances initialize() left behind while they were running
Orphaned(strips, name) ==
    IF strips[name].state = "RUNNING"
    THEN {[name |-> name, end |-> strips[name].end]}
    ELSE {}

\* anim.started as read by Sensor.trigger on the entries of the registry: a
\* StairAnimation has the fields name, description, timeline, leds, stepConfig
\* and animation, and no field `started`
StairAnimationStarted(name) == FALSE

\* a processTrigger that reads every unknown operator as "<="
TriggersByDefault(cfg, value) ==
    CASE cfg.triggerType = ">=" -> value >= cfg.triggerThreshold
      [] cfg.triggerType = "==" -> value = cfg.triggerThreshold
      [] OTHER -> value <= cfg.triggerThreshold

\* processTrigger: the configured comparison
Triggers(cfg, value) ==
    CASE cfg.triggerType = "<=" -> value <= cfg.triggerThreshold
      [] cfg.triggerType = ">=" -> value >= cfg.triggerThreshold
      [] cfg.triggerType = "==" -> value = cfg.triggerThreshold
      [] OTHER -> FALSE

\* ActiveResetDelay that waits for the end of the target animation
ActiveResetDelayForAnimation(s) ==
    IF SensorAnim(s) = NoAnim THEN DebounceMs
    ELSE Max(DebounceMs, TimelineDuration(SensorAnim(s)))

\* delay of the setTimeout that clears sensor.active
ActiveResetDelay(s) == DebounceMs

\* the body of Sensor.trigger once the active guard has passed
TriggerBody(s, value) ==
    LET a    == SensorAnim(s)
        skip == \E n \in AnimNames : StairAnimationStarted(n)
        go   == a # NoAnim /\ ~skip
    IN  /\ sensor' = [sensor EXCEPT ![s] = [active |-> TRUE, lastTriggered |-> now]]
        /\ sensorTimer' = [sensorTimer EXCEPT ![s] = now + ActiveResetDelay(s)]
        /\ strip' = IF go THEN StairStart(strip, a) ELSE strip
        /\ starts' = IF go THEN Append(starts, [by |-> s, name |-> a, at |-> now])
                     ELSE starts
        /\ log' = Append(log, [sensorname |-> s, sensorvalue |-> value,
                               effect |-> sensorCfg[s].triggerEffect, at |-> now])

\* Sensor.trigger without the `if (!this.active)` guard
TriggerUnguarded(s, value) == TriggerBody(s, value)

\* Sensor.trigger
Trigger(s, value) ==
    IF ~sensor[s].active THEN TriggerBody(s, value)
    ELSE UNCHANGED <<sensor, sensorTimer, strip, starts, log>>

\* the sensordata listener: processTrigger(event.value)
Sample ==
    /\ Len(log) < MaxLog
    /\ \E s \in SensorNames, v \in SampleValues :
         /\ IF Triggers(sensorCfg[s], v) THEN Trigger(s, v)
            ELSE UNCHANGED <<sensor, sensorTimer, strip, starts, log>>
         /\ lastOp' = [op |-> "sample", who |-> s, value |-> v]
    /\ UNCHANGED <<now, sensorCfg, orphans, current, appActive, appTimer>>
    /\ UNCHANGED requests
    /\ UNCHANGED <<animVars, lineVars, pinVars, bootVars, regVars, conVars, appVars>>

\* the timeout set by Sensor.trigger: this.active = false
SensorTimeout ==
    /\ \E s \in SensorNames :
         /\ sensorTimer[s] # Null
         /\ sensorTimer[s] <= now
         /\ sensor' = [sensor EXCEPT ![s].active = FALSE]
         /\ sensorTimer' = [sensorTimer EXCEPT ![s] = Null]
         /\ lastOp' = Other
    /\ UNCHANGED <<now, sensorCfg, strip, orphans, current, appActive, appTimer,
                   log, starts>>
    /\ UNCHANGED requests
    /\ UNCHANGED <<animVars, lineVars, pinVars, bootVars, regVars, conVars, appVars>>

\* StairledApp: the SENSOR_TRIGGERED handler.  sensor.anim.start() throws for
\* a sensor without animation, after this.active has been set.
AppSensorTriggered ==
    /\ requests < MaxRequests
    /\ requests' = requests + 1
    /\ \E s \in SensorNames :
         /\ IF ~appActive
            THEN /\ appActive' = TRUE
                 /\ IF SensorAnim(s) # NoAnim
                    THEN /\ strip' = StairStart(strip, SensorAnim(s))
                         /\ appTimer' = now + TimelineDuration(SensorAnim(s))
                    ELSE UNCHANGED <<strip, appTimer>>
            ELSE UNCHANGED <<appActive, strip, appTimer>>
         /\ lastOp' = Other
    /\ UNCHANGED <<now, sensor, sensorCfg, sensorTimer, orphans, current, log, starts>>
    /\ UNCHANGED <<animVars, lineVars, pinVars, bootVars, regVars, conVars, appVars>>

\* StairledApp: the timeout emits SENSOR_ANIM_FINISHED, whose handler clears
\* this.active
AppAnimFinished ==
    /\ appTimer # Null
    /\ appTimer <= now
    /\ appActive' = FALSE
    /\ appTimer' = Null
    /\ lastOp' = Other
    /\ UNCHANGED <<now, sensor, sensorCfg, sensorTimer, strip, orphans, current,
                   log, starts>>
    /\ UNCHANGED requests
    /\ UNCHANGED <<animVars, lineVars, pinVars, bootVars, regVars, conVars, appVars>>

\* Effects.handleAnimationStart; a request without config makes updateConfig
\* throw after the current animation has been stopped
HandleAnimationStart ==
    /\ requests < MaxRequests
    /\ requests' = requests + 1
    /\ \E name \in RequestNames, hasConfig \in BOOLEAN :
         /\ IF name \in AnimNames
            THEN LET stopped == IF current # NoAnim THEN StairStop(strip, current)
                                ELSE strip
                 IN  IF hasConfig
                     THEN /\ strip' = StairStart(StairInitialize(stopped, name), name)
                          /\ orphans' = orphans \cup Orphaned(stopped, name)
                          /\ current' = name
                     ELSE /\ strip' = stopped
                          /\ UNCHANGED <<orphans, current>>
            ELSE UNCHANGED <<strip, orphans, current>>
         /\ lastOp' = [op |-> "httpStart", who |-> NoAnim, value |-> 0]
    /\ UNCHANGED <<now, sensor, sensorCfg, sensorTimer, appActive, appTimer, log, starts>>
    /\ UNCHANGED <<animVars, lineVars, pinVars, bootVars, regVars, conVars, appVars>>

\* Effects.handleAnimationStop
HandleAnimationStop ==
    /\ requests < MaxRequests
    /\ requests' = requests + 1
    /\ strip' = IF current # NoAnim THEN StairStop(strip, current) ELSE strip
    /\ lastOp' = Other
    /\ UNCHANGED <<now, sensor, sensorCfg, sensorTimer, orphans, current, appActive,
                   appTimer, log, starts>>
    /\ UNCHANGED <<animVars, lineVars, pinVars, bootVars, regVars, conVars, appVars>>

\* Effects.handleAnimationClear.  Its "turn off all LEDs" loop runs over
\* getAvailableDrivers(), the address strings, and calls setPwm on them: with
\* a driver registered the first call throws (answered with 500), without
\* one the loop is empty; no device is written and no brightness recorded.
HandleAnimationClear ==
    /\ requests < MaxRequests
    /\ requests' = requests + 1
    /\ strip' = IF current # NoAnim THEN StairStop(strip, current) ELSE strip
    /\ current' = NoAnim
    /\ lastOp' = Other
    /\ UNCHANGED <<now, sensor, sensorCfg, sensorTimer, orphans, appActive,
                   appTimer, log, starts>>
    /\ UNCHANGED <<animVars, lineVars, pinVars, bootVars, regVars, conVars, appVars>>

\* the render loops: each instance that has to stop does so at its next tick
LoopPending ==
    \/ \E n \in AnimNames : LedstripLoop(strip[n]) # strip[n]
    \/ \E o \in orphans : now > o.end

LoopTick ==
    /\ LoopPending
    /\ strip' = [n \in AnimNames |-> LedstripLoop(strip[n])]
    /\ orphans' = {o \in orphans : now <= o.end}
    /\ lastOp' = Other
    /\ UNCHANGED <<now, sensor, sensorCfg, sensorTimer, current, appActive, appTimer,
                   log, starts>>
    /\ UNCHANGED requests
    /\ UNCHANGED <<animVars, lineVars, pinVars, bootVars, regVars, conVars, appVars>>

\* the deadlines of the pending timeouts
Deadlines ==
    {sensorTimer[s] : s \in {x \in SensorNames : sensorTimer[x] # Null}}
        \cup (IF appTimer # Null THEN {appTimer} ELSE {})

\* time passes: up to the next deadline, once every due timeout and every
\* pending loop iteration has run
Advance ==
    /\ now < MaxTime
    /\ ~LoopPending
    /\ \A t \in Deadlines : t > now
    /\ now' = LET next == now + StepMs
              IN  IF \E t \in Deadlines : t < next
                  THEN CHOOSE t \in Deadlines : \A u \in Deadlines : t <= u
                  ELSE next
    /\ lastOp' = Other
    /\ UNCHANGED <<sensor, sensorCfg, sensorTimer, strip, orphans, current, appActive,
                   appTimer, log, starts>>
    /\ UNCHANGED requests
    /\ UNCHANGED <<animVars, lineVars, pinVars, bootVars, regVars, conVars, appVars>>

DispInit ==
    /\ now = 0
    /\ sensorCfg \in SensorTables
    /\ sensor = [s \in SensorNames |-> [active |-> FALSE, lastTriggered |-> Null]]
    /\ sensorTimer = [s \in SensorNames |-> Null]
    /\ strip = [n \in AnimNames |-> IdleStrip]
    /\ orphans = {}
    /\ current = NoAnim
    /\ appActive = FALSE
    /\ appTimer = Null
    /\ log = <<>>
    /\ starts = <<>>
    /\ requests = 0
    /\ lastOp = [op |-> "init", who |-> NoAnim, value |-> 0]
    /\ anim = NewAnimation(1000)
    /\ animOp = [op |-> "new", t |-> Null, activeTicks |-> 0]
    /\ LineIdle
    /\ PinIdle
    /\ BootIdle
    /\ RegIdle
    /\ ConIdle
    /\ AppIdle

DispNext ==
    \/ Sample
    \/ SensorTimeout
    \/ AppSensorTriggered
    \/ AppAnimFinished
    \/ HandleAnimationStart
    \/ HandleAnimationStop
    \/ HandleAnimationClear
    \/ LoopTick
    \/ Advance

SpecDispatch == DispInit /\ [][DispNext]_vars

\* the LedstripAnimation instances that have been started and have neither
\* ended nor been stopped
RunningCount ==
    Cardinality({n \in AnimNames : strip[n].state = "RUNNING"}) + Cardinality(orphans)

\* the items of a TimeLine, as a set
ItemSet(l) ==
    UNION {{l.queue[k][i] : i \in DOMAIN l.queue[k]} : k \in DOMAIN l.queue}

(***************************************************************************)
(* TimeLine (unnamed/part_011): the container of the items of an animation. *)
(* this.queue is an object keyed by start time; every loop over it is a     *)
(* for..in, which visits integer keys in ascending numeric order whatever   *)
(* the order in which they were created.  Offsets are non-negative          *)
(* integers (parseInt(step.at) in StairAnimation.initialize).               *)
(***************************************************************************)
MaxItems == 2
Offsets == {0, 500}
ItemDurations == {500, 1000}
StartTimes == {0, 500}
LineTicks == {0, 500, 1000, 1500}

\* TimeLine.constructor
NewTimeLine ==
    [queue |-> <<>>, startTime |-> 0, currentPosition |-> 0, duration |-> 0,
     diff |-> 0]

RECURSIVE Descending(_)
\* the elements of a set of integers, largest first
Descending(S) ==
    IF S = {} THEN <<>>
    ELSE LET m == CHOOSE x \in S : \A y \in S : x >= y
         IN  <<m>> \o Descending(S \ {m})

RECURSIVE Ascending(_)
\* the elements of a set of integers, smallest first
Ascending(S) ==
    IF S = {} THEN <<>>
    ELSE LET m == CHOOSE x \in S : \A y \in S : x <= y
         IN  <<m>> \o Ascending(S \ {m})

\* for..in that visits the keys of this.queue from the largest down
ForInDescending(queue) == Descending(DOMAIN queue)

\* for (let position in this.queue): the keys in the order JavaScript visits
\* them
ForIn(queue) == Ascending(DOMAIN queue)

\* the number of items in the queue
ItemCount(queue) ==
    LET keys == ForIn(queue)
        counts == [i \in 1..Len(keys) |-> Len(queue[keys[i]])]
        sum[i \in 0..Len(keys)] == IF i = 0 THEN 0 ELSE sum[i - 1] + counts[i]
    IN  sum[Len(keys)]

\* TimeLine.add(startTime, instance); id is the rank of the call, kept with
\* the item to tell the items apart
add(l, startTime, id, instance) ==
    LET item == [id |-> id, anim |-> [instance EXCEPT !.relativeStart = startTime]]
    IN  [l EXCEPT
           !.queue = IF startTime \in DOMAIN @
                     THEN [@ EXCEPT ![startTime] = Append(@, item)]
                     ELSE [k \in DOMAIN @ \cup {startTime} |->
                             IF k = startTime THEN <<item>> ELSE @[k]],
           !.duration = AddDuration(@, [at |-> startTime,
                                        duration |-> instance.duration])]

RECURSIVE Flatten(_, _)
\* the nested loops of getAllItems / getActiveItems over the given keys
Flatten(queue, keys) ==
    IF Len(keys) = 0 THEN <<>>
    ELSE queue[Head(keys)] \o Flatten(queue, Tail(keys))

\* TimeLine.getAllItems
getAllItems(l) == Flatten(l.queue, ForIn(l.queue))

IsActive(item) == item.anim.active

\* TimeLine.getActiveItems
getActiveItems(l) == SelectSeq(Flatten(l.queue, ForIn(l.queue)), IsActive)

DecimalDigits == <<"0", "1", "2", "3", "4", "5", "6", "7", "8", "9">>

\* the property name under which this.queue[startTime] is kept: the decimal
\* digits of a non-negative integer below 10000, most significant first
PropertyKey(n) ==
    LET len == IF n < 10 THEN 1 ELSE IF n < 100 THEN 2 ELSE IF n < 1000 THEN 3 ELSE 4
        pow == [e \in 0..3 |-> IF e = 0 THEN 1 ELSE IF e = 1 THEN 10
                                ELSE IF e = 2 THEN 100 ELSE 1000]
    IN  [i \in 1..len |-> DecimalDigits[((n \div pow[len - i]) % 10) + 1]]

\* parseInt(position) of a property name made of decimal digits
parseInt(position) ==
    LET digit(c) == (CHOOSE v \in 1..10 : DecimalDigits[v] = c) - 1
        value[i \in 0..Len(position)] ==
            IF i = 0 THEN 0 ELSE value[i - 1] * 10 + digit(position[i])
    IN  value[Len(position)]

\* a setStartTime that arms every item at the container's start
setStartTimeFlat(l, time) ==
    [l EXCEPT
       !.startTime = time,
       !.queue = [k \in DOMAIN @ |->
                    [i \in DOMAIN @[k] |->
                       [@[k][i] EXCEPT !.anim = setAbsolutePosition(@, time)]]]]

\* TimeLine.setStartTime
setStartTime(l, time) ==
    [l EXCEPT
       !.startTime = time,
       !.queue = [k \in DOMAIN @ |->
                    [i \in DOMAIN @[k] |->
                       [@[k][i] EXCEPT
                          !.anim = setAbsolutePosition(@, time + parseInt(PropertyKey(k)))]]]]

\* TimeLine.setCurrentPosition
lineSetCurrentPosition(l, time) ==
    [l EXCEPT
       !.currentPosition = time,
       !.diff = time - Num(l.startTime),
       !.queue = [k \in DOMAIN @ |->
                    [i \in DOMAIN @[k] |->
                       [@[k][i] EXCEPT !.anim = setCurrentPosition(@, time)]]]]

\* a TimeLine.reset that clears the container's times and leaves the items
\* as they are
lineResetShallow(l) ==
    [l EXCEPT !.currentPosition = Null, !.startTime = Null]

\* TimeLine.reset
lineReset(l) ==
    [l EXCEPT
       !.currentPosition = Null,
       !.startTime = Null,
       !.queue = [k \in DOMAIN @ |->
                    [i \in DOMAIN @[k] |->
                       [@[k][i] EXCEPT !.anim = reset(@)]]]]

\* the items as the add() calls received them: freshly constructed, with the
\* relative position add() gave them
AsAdded(l) ==
    [l EXCEPT
       !.queue = [k \in DOMAIN @ |->
                    [i \in DOMAIN @[k] |->
                       [@[k][i] EXCEPT
                          !.anim = [NewAnimation(@.duration) EXCEPT
                                      !.relativeStart = k]]]]]

\* what a renderer sees of the items after a tick
Observed(l) ==
    LET items == getAllItems(l)
    IN  [i \in DOMAIN items |->
           [id |-> items[i].id, active |-> items[i].anim.active,
            progress |-> items[i].anim.progress, ended |-> items[i].anim.ended,
            onStartCalls |-> items[i].anim.onStartCalls]]

\* setStartTime(t) followed by ticks at t + deltas[1], t + deltas[2]: what is
\* seen after each tick
RunFrom(l, t, deltas) ==
    LET first == lineSetCurrentPosition(setStartTime(l, t), t + deltas[1])
        second == lineSetCurrentPosition(first, t + deltas[2])
    IN  <<Observed(first), Observed(second)>>

\* the tick times of a run, relative to its start
Deltas == {250, 500, 1600}

LineInit ==
    /\ line = NewTimeLine
    /\ lineOp = [op |-> "new", arg |-> Null]
    /\ anim = NewAnimation(1000)
    /\ animOp = [op |-> "new", t |-> Null, activeTicks |-> 0]
    /\ DispIdle
    /\ PinIdle
    /\ BootIdle
    /\ RegIdle
    /\ ConIdle
    /\ AppIdle

LineAdd ==
    /\ ItemCount(line.queue) < MaxItems
    /\ \E o \in Offsets, d \in ItemDurations :
         /\ line' = add(line, o, ItemCount(line.queue) + 1, NewAnimation(d))
         /\ lineOp' = [op |-> "add", arg |-> o]
    /\ UNCHANGED <<animVars, dispVars, pinVars, bootVars, regVars, conVars, appVars>>

LineSetStartTime ==
    /\ \E t \in StartTimes :
         /\ line' = setStartTime(line, t)
         /\ lineOp' = [op |-> "setStartTime", arg |-> t]
    /\ UNCHANGED <<animVars, dispVars, pinVars, bootVars, regVars, conVars, appVars>>

LineTick ==
    /\ \E t \in LineTicks :
         /\ line' = lineSetCurrentPosition(line, t)
         /\ lineOp' = [op |-> "setCurrentPosition", arg |-> t]
    /\ UNCHANGED <<animVars, dispVars, pinVars, bootVars, regVars, conVars, appVars>>

LineReset ==
    /\ line' = lineReset(line)
    /\ lineOp' = [op |-> "reset", arg |-> Null]
    /\ UNCHANGED <<animVars, dispVars, pinVars, bootVars, regVars, conVars, appVars>>

LineNext == LineAdd \/ LineSetStartTime \/ LineTick \/ LineReset

SpecTimeLine == LineInit /\ [][LineNext]_vars

(***************************************************************************)
(* SpecReplay: a TimeLine of two items, every placement and duration,      *)
(* started, ticked and reset in every order.                               *)
(***************************************************************************)
ReplayInit ==
    /\ \E o1 \in Offsets, o2 \in Offsets, d1 \in ItemDurations, d2 \in ItemDurations :
         /\ line = add(add(NewTimeLine, o1, 1, NewAnimation(d1)), o2, 2, NewAnimation(d2))
         /\ lineOp = [op |-> "add", arg |-> o2]
    /\ anim = NewAnimation(1000)
    /\ animOp = [op |-> "new", t |-> Null, activeTicks |-> 0]
    /\ DispIdle
    /\ PinIdle
    /\ BootIdle
    /\ RegIdle
    /\ ConIdle
    /\ AppIdle

ReplayNext == LineSetStartTime \/ LineTick \/ LineReset

SpecReplay == ReplayInit /\ [][ReplayNext]_vars

(***************************************************************************)
(* PinMapper (PinMapper.js) with the PCA9685 devices behind it, and the     *)
(* /pca9685 routes (routes/pca9685.js).  A device keeps the last on and off *)
(* counts written to each of its channels; a write to a device whose bus    *)
(* fails throws.                                                            *)
(***************************************************************************)
PinCount == 16
MaxDuty == 4095
TestDuty == 1000

\* the keys of this.drivers, in the order addDriver registered them
DriverOrder == <<"0x40", "0x41">>
Drivers == {DriverOrder[i] : i \in DOMAIN DriverOrder}
Pins == 0..(PinCount - 1)

\* getDriver / getDriverByAddress: lower case, "0x" prepended when missing
NormalizeAddress(address) ==
    CASE address = "40" -> "0x40"
      [] address = "0X41" -> "0x41"
      [] OTHER -> address

\* the steps a caller may name; no mapping contains step 3
StepInputs == {1, 2, 3}
BrightnessInputs == {0 - 5, 0, 2000, 5000}

\* the arrays handed to setPinMapping, loadConfig and POST /pca9685
MappingChoices ==
    { <<[step |-> 1, driver |-> "0x40", pin |-> 0],
        [step |-> 2, driver |-> "0x40", pin |-> 1]>>,
      <<[step |-> 1, driver |-> "0x40", pin |-> 5],
        [step |-> 2, driver |-> "0X41", pin |-> 1]>>,
      <<[step |-> 1, driver |-> "0x40", pin |-> 0]>>,
      <<[step |-> 1, driver |-> "0x40", pin |-> 0],
        [step |-> 1, driver |-> "40", pin |-> 0]>>,
      <<[step |-> 2, driver |-> "0x42", pin |-> 1]>> }

\* the mapping stored in the configuration at startup
StoredMapping ==
    <<[step |-> 1, driver |-> "0x40", pin |-> 0],
      [step |-> 2, driver |-> "0x40", pin |-> 1]>>

Off == [on |-> 0, off |-> 0]
NoLookup == [built |-> FALSE, map |-> <<>>]

\* the pin mapper and its devices as one value
PinState ==
    [pinMapping |-> pinMapping, lookupCache |-> lookupCache,
     brightnesses |-> brightnesses, duty |-> duty, installedBy |-> installedBy,
     wrote |-> <<>>, threw |-> FALSE]

\* new Map(this.pinMapping.map(entry => [entry.step, entry])): for a step that
\* occurs twice the later entry replaces the earlier
StepMap(mapping) ==
    [st \in {mapping[i].step : i \in DOMAIN mapping} |->
        mapping[CHOOSE i \in DOMAIN mapping :
                   /\ mapping[i].step = st
                   /\ \A j \in DOMAIN mapping : mapping[j].step = st => j <= i]]

\* getMappedPin up to the lookup: the cache is built when there is none
WithLookup(p) ==
    IF p.lookupCache.built THEN p
    ELSE [p EXCEPT !.lookupCache = [built |-> TRUE, map |-> StepMap(p.pinMapping)]]

\* driver.setPwm(pin, on, off) on a registered driver
SetPwm(p, driver, pin, on, off) ==
    [p EXCEPT !.duty[driver][pin] = [on |-> on, off |-> off],
              !.wrote = Append(@, [driver |-> driver, pin |-> pin,
                                   on |-> on, off |-> off])]

\* Math.min(Math.max(brightness, 0), 4095)
Clamp(brightness) == Min(Max(brightness, 0), MaxDuty)

\* PinMapper.getBrightness
getBrightness(p, step) == Num(p.brightnesses[step])

\* PinMapper.setBrightness for a numeric brightness; failing is the set of
\* drivers whose bus fails during the call
setBrightness(p, step, brightness, failing) ==
    LET v  == Clamp(brightness)
        p1 == WithLookup(p)
    IN  IF step \notin DOMAIN p1.lookupCache.map THEN p1
        ELSE LET e  == p1.lookupCache.map[step]
                 dr == NormalizeAddress(e.driver)
                 p2 == [p1 EXCEPT !.brightnesses[step] = v]
             IN  IF dr \notin Drivers \/ dr \in failing THEN p2
                 ELSE SetPwm(p2, dr, e.pin, 0, v)

RECURSIVE SetEach(_, _, _, _)
\* steps.forEach(step => this.setBrightness(step, brightness))
SetEach(p, steps, brightness, failing) ==
    IF Len(steps) = 0 THEN p
    ELSE SetEach(setBrightness(p, Head(steps), brightness, failing),
                 Tail(steps), brightness, failing)

\* this.pinMapping.map(entry => entry.step)
StepsOf(mapping) == [i \in DOMAIN mapping |-> mapping[i].step]

\* PinMapper.setAllBrightness
setAllBrightness(p, brightness, failing) ==
    SetEach(p, StepsOf(p.pinMapping), brightness, failing)

\* PinMapper.test
test(p, failing) ==
    SetEach(SetEach(p, StepsOf(p.pinMapping), TestDuty, failing),
            StepsOf(p.pinMapping), 0, failing)

\* for (let i = 0; i < 16; i++) driver.setPwm(i, 0, 0)
ZeroPins(p, driver) ==
    [p EXCEPT !.duty[driver] = [i \in Pins |-> Off],
              !.wrote = @ \o [i \in 1..PinCount |->
                                [driver |-> driver, pin |-> i - 1,
                                 on |-> 0, off |-> 0]]]

\* setPinMapping without its "Reset all pins" loop
ResetNone(p, failing) == p

RECURSIVE ResetFrom(_, _, _)
ResetFrom(p, i, failing) ==
    IF i > Len(DriverOrder) THEN p
    ELSE IF DriverOrder[i] \in failing THEN [p EXCEPT !.threw = TRUE]
    ELSE ResetFrom(ZeroPins(p, DriverOrder[i]), i + 1, failing)

\* setPinMapping, "Reset all pins": every channel of every driver, in the
\* order of this.drivers; the first failing write throws out of the call
ResetAll(p, failing) == ResetFrom(p, 1, failing)

RECURSIVE InitEntries(_, _)
\* setPinMapping, "Initialize all mapped pins to off state"
InitEntries(p, entries) ==
    IF Len(entries) = 0 THEN p
    ELSE LET e  == Head(entries)
             dr == NormalizeAddress(e.driver)
         IN  InitEntries(IF dr \in Drivers THEN SetPwm(p, dr, e.pin, 0, 0) ELSE p,
                         Tail(entries))

\* setPinMapping that adds the entries to the installed ones
AppendMapping(old, new) == old \o new

\* this.pinMapping = mapping
InstallMapping(old, new) == new

\* setPinMapping that keeps the lookup cache
KeepLookup(cache) == cache

\* this._lookupCache = null
ClearLookup(cache) == NoLookup

\* PinMapper.setPinMapping for an array
setPinMapping(p, mapping, failing) ==
    LET p1 == ResetAll(p, failing)
    IN  IF p1.threw THEN p1
        ELSE InitEntries([p1 EXCEPT
                            !.pinMapping = InstallMapping(@, mapping),
                            !.installedBy = "setPinMapping",
                            !.lookupCache = ClearLookup(@)],
                         mapping)

\* PinMapper.loadConfig for a configuration that holds a pinMapping
loadConfig(p, mapping) ==
    [p EXCEPT !.pinMapping = mapping, !.installedBy = "loadConfig"]

\* the sets of drivers whose bus may fail during one call
FailureChoices == {{}, {"0x41"}}

\* the bodies POST /pca9685 may receive in `mappings`
RequestBodies ==
    { <<[step |-> 1, driver |-> "0x40", pin |-> 5],
        [step |-> 0, driver |-> "0x40", pin |-> 6]>>,
      <<[step |-> 1, driver |-> "0x40", pin |-> 0],
        [step |-> 1, driver |-> "40", pin |-> 0]>>,
      <<[step |-> 2, driver |-> "0x40", pin |-> 16]>> }

\* the port lists and values the setPWM websocket message may carry
PortLists == {<<0>>, <<0, 5>>}
PwmValues == {2000, 5000}
PwmAddresses == {"0x40", "0x42"}

\* handleSavePinMapping: the filter on the posted entries (driver is a string
\* in every body here)
ValidEntry(m) == m.pin >= 0 /\ m.pin <= PinCount - 1 /\ m.step > 0

RECURSIVE SetPorts(_, _, _, _, _)
\* handleSetPWM: portNumbers.forEach(port => driver.setPwm(port, 0, value))
SetPorts(p, driver, ports, value, failing) ==
    IF Len(ports) = 0 THEN p
    ELSE SetPorts(IF driver \in failing THEN p
                  ELSE SetPwm(p, driver, Head(ports), 0, value),
                  driver, Tail(ports), value, failing)

\* the state a call leaves behind, and what the call was; again tells a
\* setPinMapping that repeats the call before it
Apply(r, op, step, value, arg) ==
    /\ pinMapping' = r.pinMapping
    /\ lookupCache' = r.lookupCache
    /\ brightnesses' = r.brightnesses
    /\ duty' = r.duty
    /\ installedBy' = r.installedBy
    /\ pinOp' = [op |-> op, step |-> step, value |-> value, arg |-> arg,
                 wrote |-> r.wrote, threw |-> r.threw,
                 again |-> /\ op = "setPinMapping"
                           /\ pinOp.op = op
                           /\ pinOp.arg = arg
                           /\ ~pinOp.threw
                           /\ ~r.threw]

PinInit ==
    /\ pinMapping = StoredMapping
    /\ lookupCache = NoLookup
    /\ brightnesses = [st \in StepInputs |-> Null]
    /\ duty = [dr \in Drivers |-> [i \in Pins |-> Off]]
    /\ installedBy = "setPinMapping"
    /\ pinOp = [op |-> "init", step |-> Null, value |-> 0, arg |-> <<>>,
                wrote |-> <<>>, threw |-> FALSE, again |-> FALSE]
    /\ anim = NewAnimation(1000)
    /\ animOp = [op |-> "new", t |-> Null, activeTicks |-> 0]
    /\ DispIdle
    /\ LineIdle
    /\ BootIdle
    /\ RegIdle
    /\ ConIdle
    /\ AppIdle

PinGetMappedPin ==
    /\ \E st \in StepInputs :
         LET r == WithLookup(PinState)
         IN  Apply([r EXCEPT !.threw = st \notin DOMAIN r.lookupCache.map],
                   "getMappedPin", st, 0, <<>>)
    /\ UNCHANGED <<animVars, dispVars, lineVars, bootVars, regVars, conVars, appVars>>

PinSetBrightness ==
    /\ \E st \in StepInputs, b \in BrightnessInputs, failing \in FailureChoices :
         Apply(setBrightness(PinState, st, b, failing), "setBrightness", st, b, <<>>)
    /\ UNCHANGED <<animVars, dispVars, lineVars, bootVars, regVars, conVars, appVars>>

PinSetAllBrightness ==
    /\ \E b \in BrightnessInputs, failing \in FailureChoices :
         Apply(setAllBrightness(PinState, b, failing), "setAllBrightness", Null, b, <<>>)
    /\ UNCHANGED <<animVars, dispVars, lineVars, bootVars, regVars, conVars, appVars>>

PinTest ==
    /\ \E failing \in FailureChoices :
         Apply(test(PinState, failing), "test", Null, 0, <<>>)
    /\ UNCHANGED <<animVars, dispVars, lineVars, bootVars, regVars, conVars, appVars>>

PinSetPinMapping ==
    /\ \E m \in MappingChoices, failing \in FailureChoices :
         Apply(setPinMapping(PinState, m, failing), "setPinMapping", Null, 0, m)
    /\ UNCHANGED <<animVars, dispVars, lineVars, bootVars, regVars, conVars, appVars>>

PinLoadConfig ==
    /\ \E m \in MappingChoices :
         Apply(loadConfig(PinState, m), "loadConfig", Null, 0, m)
    /\ UNCHANGED <<animVars, dispVars, lineVars, bootVars, regVars, conVars, appVars>>

\* Pca9685.handleSavePinMapping
SavePinMapping ==
    /\ \E body \in RequestBodies, failing \in FailureChoices :
         LET validMappings == SelectSeq(body, ValidEntry)
         IN  IF Len(validMappings) = 0
             THEN Apply(PinState, "rejectPinMapping", Null, 0, body)
             ELSE Apply(setPinMapping(PinState, validMappings, failing),
                        "savePinMapping", Null, 0, validMappings)
    /\ UNCHANGED <<animVars, dispVars, lineVars, bootVars, regVars, conVars, appVars>>

\* Pca9685.handleSetPWM
SetPWM ==
    /\ \E address \in PwmAddresses, ports \in PortLists, value \in PwmValues,
          failing \in FailureChoices :
         LET dr == NormalizeAddress(address)
         IN  IF dr \notin Drivers
             THEN Apply([PinState EXCEPT !.threw = TRUE], "setPWM", Null, value, ports)
             ELSE Apply(SetPorts(PinState, dr, ports, value, failing),
                        "setPWM", Null, value, ports)
    /\ UNCHANGED <<animVars, dispVars, lineVars, bootVars, regVars, conVars, appVars>>

PinNext ==
    \/ PinGetMappedPin
    \/ PinSetBrightness
    \/ PinSetAllBrightness
    \/ PinTest
    \/ PinSetPinMapping
    \/ PinLoadConfig
    \/ SavePinMapping
    \/ SetPWM

SpecPins == PinInit /\ [][PinNext]_vars

(***************************************************************************)
(* Startup and shutdown of the PinMapper (PinMapper.js) as                 *)
(* StairledApp.initPinMapper drives it: the bus scan of discoverDevices,   *)
(* the registration of the drivers found, the default mapping, the first   *)
(* calls on the mapper, and cleanup on the process events.                 *)
(***************************************************************************)
BaseAddress == 64
MaxAddress == 127
FalsePositive == 112
Mode1Max == 127
MaxAttempts == 3

Addresses == BaseAddress..MaxAddress

HexDigits == <<"0", "1", "2", "3", "4", "5", "6", "7",
               "8", "9", "a", "b", "c", "d", "e", "f">>

\* `0x${addr.toString(16)}` for a two-digit address
Hex(addr) == "0x" \o HexDigits[(addr \div 16) + 1] \o HexDigits[(addr % 16) + 1]

\* parseInt(address, 16) of such a string
ParseHex(address) == CHOOSE a \in 16..255 : Hex(a) = address

\* the addresses at which a device may sit; every other address has none
Probed == {64, 112, 127}
ProbedDrivers == {Hex(a) : a \in Probed}

\* what a MODE1 read can do: new Wire() throws, the callback reports an
\* error, or it delivers one byte
NoDevice == [kind |-> "error", mode1 |-> 0]
Unread == [kind |-> "unread", mode1 |-> 0]
Answers ==
    { [kind |-> "throw", mode1 |-> 0], NoDevice,
      [kind |-> "value", mode1 |-> 0],
      [kind |-> "value", mode1 |-> 127],
      [kind |-> "value", mode1 |-> 128] }
AnswersAt(addr) == IF addr \in Probed THEN Answers ELSE {NoDevice}

\* a scan that probes 0x70 like every other address
SkipsNothing(addr) == FALSE

\* if (addr === 0x70) continue
Skips(addr) == addr = FalsePositive

\* if (result) { if (mode1Value <= 0x7F) push }
Accepts(answer) == answer.kind = "value" /\ answer.mode1 <= Mode1Max

\* config.get('pinmapper:mapping'): nothing stored (the parameter default {}
\* applies), an empty array, or an array of entries
NoEntries == [isArray |-> FALSE, entries |-> <<>>]
StoredChoices ==
    { NoEntries,
      [isArray |-> TRUE, entries |-> <<>>],
      [isArray |-> TRUE, entries |-> StoredMapping] }

\* PinMapper.generateDefaultPinMapping: this.pinMapping[ledIndex] = {driver, pin}
\* for ledIndex = 0, 1, ...; entry i of the model is the property i - 1, and
\* the entries carry no step (Null)
generateDefaultPinMapping(drv, m) ==
    LET n == PinCount * Len(drv)
    IN  [m EXCEPT !.entries =
           [i \in 1..Max(n, Len(m.entries)) |->
              IF i <= n
              THEN [step |-> Null, driver |-> drv[((i - 1) \div PinCount) + 1],
                    pin |-> (i - 1) % PinCount]
              ELSE m.entries[i]]]

\* the writes of driver.setPwm(i, 0, 0) for i = 0..15 on each driver
ZeroWrites(drv) ==
    [k \in 1..(PinCount * Len(drv)) |->
       [driver |-> drv[((k - 1) \div PinCount) + 1], pin |-> (k - 1) % PinCount,
        on |-> 0, off |-> 0]]

\* the keys of this.drivers as a set
DriverSet(drv) == {drv[i] : i \in DOMAIN drv}

\* setPinMapping, "Initialize all mapped pins to off state"
EntryWrites(drv, entries) ==
    LET known == SelectSeq(entries,
                   LAMBDA e : NormalizeAddress(e.driver) \in DriverSet(drv))
    IN  [k \in DOMAIN known |->
           [driver |-> NormalizeAddress(known[k].driver), pin |-> known[k].pin,
            on |-> 0, off |-> 0]]

\* no entry returned
NoEntry == [step |-> Null, driver |-> "none", pin |-> Null]

\* the PinMapper at startup as one value
BootState ==
    [drivers |-> drivers, pinMapping |-> bootMapping, lookupCache |-> bootCache,
     wrote |-> <<>>, threw |-> FALSE, result |-> NoEntry]

\* initializeDiscoveredDevices after the scan, then the rest of initPinMapper
initPinMapper(p, addresses, storedMapping) ==
    LET p1 == IF Len(addresses) = 0 THEN p
              ELSE LET p0 == [p EXCEPT !.drivers = addresses]
                   IN  IF Len(storedMapping.entries) = 0
                       THEN [p0 EXCEPT !.pinMapping =
                               generateDefaultPinMapping(addresses, @)]
                       ELSE p0
    IN  IF storedMapping.isArray
        THEN [p1 EXCEPT !.wrote = ZeroWrites(p1.drivers)
                                    \o EntryWrites(p1.drivers, storedMapping.entries),
                        !.pinMapping = storedMapping,
                        !.lookupCache = NoLookup]
        ELSE p1

\* getMappedPin up to the lookup: this.pinMapping.map is a function only when
\* pinMapping is an array; on an object the call throws a TypeError
BootLookup(p) ==
    IF p.lookupCache.built THEN p
    ELSE IF ~p.pinMapping.isArray THEN [p EXCEPT !.threw = TRUE]
    ELSE [p EXCEPT !.lookupCache =
            [built |-> TRUE, map |-> StepMap(p.pinMapping.entries)]]

\* PinMapper.getMappedPin; result is the position of the entry returned
bootGetMappedPin(p, step) ==
    LET p1 == BootLookup(p)
    IN  IF p1.threw THEN p1
        ELSE IF step \notin DOMAIN p1.lookupCache.map THEN [p1 EXCEPT !.threw = TRUE]
        ELSE [p1 EXCEPT !.result = p1.lookupCache.map[step]]

\* PinMapper.setBrightness: whatever getMappedPin or getDriver throws is caught
bootSetBrightness(p, step, brightness) ==
    LET p1 == bootGetMappedPin(p, step)
    IN  IF p1.threw THEN [p1 EXCEPT !.threw = FALSE]
        ELSE LET e  == p1.result
                 dr == NormalizeAddress(e.driver)
             IN  IF dr \notin DriverSet(p1.drivers) THEN [p1 EXCEPT !.result = NoEntry]
                 ELSE [p1 EXCEPT !.result = NoEntry,
                                 !.wrote = Append(@, [driver |-> dr, pin |-> e.pin,
                                                      on |-> 0,
                                                      off |-> Clamp(brightness)])]

RECURSIVE BootSetEach(_, _, _)
\* steps.forEach(step => this.setBrightness(step, brightness))
BootSetEach(p, steps, brightness) ==
    IF Len(steps) = 0 THEN p
    ELSE BootSetEach(bootSetBrightness(p, Head(steps), brightness),
                     Tail(steps), brightness)

\* PinMapper.setAllBrightness: the TypeError of this.pinMapping.map leaves the call
bootSetAllBrightness(p, brightness) ==
    IF ~p.pinMapping.isArray THEN [p EXCEPT !.threw = TRUE]
    ELSE BootSetEach(p, StepsOf(p.pinMapping.entries), brightness)

\* PinMapper.test: the TypeError of this.pinMapping.map is caught and logged
bootTest(p) ==
    IF ~p.pinMapping.isArray THEN p
    ELSE BootSetEach(BootSetEach(p, StepsOf(p.pinMapping.entries), TestDuty),
                     StepsOf(p.pinMapping.entries), 0)

\* the steps a caller may name once the mapper is ready
BootSteps == {0, 1, 2, 16, 17}
BootBrightnessInputs == {2000}

\* how many of the next close() calls on a driver throw
FailCounts == {0, 1, MaxAttempts}

\* sleep.msleep(100): the module binds `sleeper` (import sleeper from "sleep"),
\* so the identifier `sleep` is unbound and evaluating it throws a
\* ReferenceError
SleepBound == FALSE

\* the pause between two attempts succeeds when `sleep` is bound
PauseWorks == SleepBound

RECURSIVE CloseAttempts(_, _)
\* for (attempt = 1; attempt <= 3; attempt++) { try { driver.close(); break }
\* catch { if (attempt === 3) throw; sleep.msleep(100) } }: the number of
\* close() calls made when the next `fails` calls throw
CloseAttempts(fails, attempt) ==
    IF fails < attempt THEN attempt
    ELSE IF attempt = MaxAttempts THEN attempt
    ELSE IF ~PauseWorks THEN attempt
    ELSE CloseAttempts(fails, attempt + 1)

\* a cleanup that runs every time it is called
AlwaysRuns(completed) == FALSE

\* if (this.cleanupCompleted) return
AlreadyDone(completed) == completed

\* the step a call leaves behind
BootApply(r, op, step, closed, fails, late) ==
    /\ drivers' = r.drivers
    /\ bootMapping' = r.pinMapping
    /\ bootCache' = r.lookupCache
    /\ bootOp' = [op |-> op, step |-> step, threw |-> r.threw, result |-> r.result,
                  wrote |-> r.wrote, closed |-> closed, fails |-> fails,
                  late |-> late]

NoCalls == [dr \in ProbedDrivers |-> 0]

BootInit ==
    /\ bus = [a \in Addresses |-> Unread]
    /\ stored \in StoredChoices
    /\ scanAddr = BaseAddress
    /\ discoveredAddresses = <<>>
    /\ drivers = <<>>
    /\ bootMapping = NoEntries
    /\ bootCache = NoLookup
    /\ phase = "scan"
    /\ cleanupCompleted = FALSE
    /\ listening = TRUE
    /\ closeCalls = NoCalls
    /\ bootOp = [op |-> "new", step |-> Null, threw |-> FALSE, result |-> NoEntry,
                 wrote |-> <<>>, closed |-> NoCalls, fails |-> NoCalls,
                 late |-> FALSE]
    /\ anim = NewAnimation(1000)
    /\ animOp = [op |-> "new", t |-> Null, activeTicks |-> 0]
    /\ DispIdle
    /\ LineIdle
    /\ PinIdle
    /\ RegIdle
    /\ ConIdle
    /\ AppIdle

\* discoverDevices: one pass of its loop; the device at the address answers
\* as the bus has it
Probe ==
    /\ phase = "scan"
    /\ scanAddr <= MaxAddress
    /\ \E answer \in AnswersAt(scanAddr) :
         /\ bus' = [bus EXCEPT ![scanAddr] = answer]
         /\ discoveredAddresses' =
              IF ~Skips(scanAddr) /\ Accepts(answer)
              THEN Append(discoveredAddresses, Hex(scanAddr))
              ELSE discoveredAddresses
    /\ scanAddr' = scanAddr + 1
    /\ bootOp' = [op |-> "probe", step |-> scanAddr, threw |-> FALSE,
                  result |-> NoEntry, wrote |-> <<>>, closed |-> NoCalls,
                  fails |-> NoCalls, late |-> FALSE]
    /\ UNCHANGED <<stored, drivers, bootMapping, bootCache, phase,
                   cleanupCompleted, listening, closeCalls>>
    /\ UNCHANGED <<animVars, dispVars, lineVars, pinVars, regVars, conVars, appVars>>

\* StairledApp.initPinMapper once discoverDevices has returned
Initialize ==
    /\ phase = "scan"
    /\ scanAddr > MaxAddress
    /\ BootApply(initPinMapper(BootState, discoveredAddresses, stored),
                 "initPinMapper", Null, NoCalls, NoCalls, FALSE)
    /\ phase' = "ready"
    /\ UNCHANGED <<bus, stored, scanAddr, discoveredAddresses, cleanupCompleted,
                   listening, closeCalls>>
    /\ UNCHANGED <<animVars, dispVars, lineVars, pinVars, regVars, conVars, appVars>>

BootGetMappedPin ==
    /\ phase = "ready"
    /\ \E st \in BootSteps :
         BootApply(bootGetMappedPin(BootState, st), "getMappedPin", st,
                   NoCalls, NoCalls, FALSE)
    /\ UNCHANGED <<bus, stored, scanAddr, discoveredAddresses, phase, cleanupCompleted,
                   listening, closeCalls>>
    /\ UNCHANGED <<animVars, dispVars, lineVars, pinVars, regVars, conVars, appVars>>

BootSetBrightness ==
    /\ phase = "ready"
    /\ \E st \in BootSteps, b \in BootBrightnessInputs :
         BootApply(bootSetBrightness(BootState, st, b), "setBrightness", st,
                   NoCalls, NoCalls, FALSE)
    /\ UNCHANGED <<bus, stored, scanAddr, discoveredAddresses, phase, cleanupCompleted,
                   listening, closeCalls>>
    /\ UNCHANGED <<animVars, dispVars, lineVars, pinVars, regVars, conVars, appVars>>

BootSetAllBrightness ==
    /\ phase = "ready"
    /\ \E b \in BootBrightnessInputs :
         BootApply(bootSetAllBrightness(BootState, b), "setAllBrightness", Null,
                   NoCalls, NoCalls, FALSE)
    /\ UNCHANGED <<bus, stored, scanAddr, discoveredAddresses, phase, cleanupCompleted,
                   listening, closeCalls>>
    /\ UNCHANGED <<animVars, dispVars, lineVars, pinVars, regVars, conVars, appVars>>

\* setTimeout(() => pinMapper.test(), 5000)
BootTest ==
    /\ phase = "ready"
    /\ BootApply(bootTest(BootState), "test", Null, NoCalls, NoCalls, FALSE)
    /\ UNCHANGED <<bus, stored, scanAddr, discoveredAddresses, phase, cleanupCompleted,
                   listening, closeCalls>>
    /\ UNCHANGED <<animVars, dispVars, lineVars, pinVars, regVars, conVars, appVars>>

\* PinMapper.cleanup; this.wire is null throughout, so no bus handle is closed.
\* fails tells for each driver how many of its next close() calls throw; the
\* step records it for the drivers that were asked to close
cleanup(op, fails) ==
    LET late   == AlreadyDone(cleanupCompleted)
        asked  == IF late THEN {} ELSE DriverSet(drivers)
        closed == [dr \in ProbedDrivers |->
                     IF dr \in asked THEN CloseAttempts(fails[dr], 1) ELSE 0]
        failed == [dr \in ProbedDrivers |-> IF dr \in asked THEN fails[dr] ELSE 0]
    IN  /\ cleanupCompleted' = TRUE
        /\ closeCalls' = [dr \in ProbedDrivers |-> closeCalls[dr] + closed[dr]]
        /\ listening' = FALSE
        /\ BootApply(BootState, op, Null, closed, failed, cleanupCompleted)

\* PinMapper.exitHandler
exitHandler(op, fails) ==
    IF ~cleanupCompleted THEN cleanup(op, fails)
    ELSE /\ BootApply(BootState, op, Null, NoCalls, NoCalls, TRUE)
         /\ UNCHANGED <<cleanupCompleted, listening, closeCalls>>

ProcessEvents == {"exit", "SIGINT", "SIGTERM", "uncaughtException"}

\* the close() failures that can happen in a call: none where no driver is asked
FailChoices ==
    {f \in [ProbedDrivers -> FailCounts] :
        \A dr \in ProbedDrivers :
           (cleanupCompleted \/ dr \notin DriverSet(drivers)) => f[dr] = 0}

\* the process emits one of the four events; exitHandler runs when it is
\* still registered for them
ProcessEvent ==
    /\ listening
    /\ \E event \in ProcessEvents, fails \in FailChoices :
         exitHandler(event, fails)
    /\ UNCHANGED <<bus, stored, scanAddr, discoveredAddresses, phase>>
    /\ UNCHANGED <<animVars, dispVars, lineVars, pinVars, regVars, conVars, appVars>>

\* a direct call of the bound exitHandler
CallExitHandler ==
    /\ \E fails \in FailChoices : exitHandler("exitHandler", fails)
    /\ UNCHANGED <<bus, stored, scanAddr, discoveredAddresses, phase>>
    /\ UNCHANGED <<animVars, dispVars, lineVars, pinVars, regVars, conVars, appVars>>

\* a direct call of cleanup
CallCleanup ==
    /\ \E fails \in FailChoices : cleanup("cleanup", fails)
    /\ UNCHANGED <<bus, stored, scanAddr, discoveredAddresses, phase>>
    /\ UNCHANGED <<animVars, dispVars, lineVars, pinVars, regVars, conVars, appVars>>

BootNext ==
    \/ Probe
    \/ Initialize
    \/ BootGetMappedPin
    \/ BootSetBrightness
    \/ BootSetAllBrightness
    \/ BootTest
    \/ ProcessEvent
    \/ CallExitHandler
    \/ CallCleanup

SpecBoot == BootInit /\ [][BootNext]_vars

(***************************************************************************)
(* The animation registry (animationService.animations) as the routes of   *)
(* Effects and the sensors use it: handleConfigurationSave,                *)
(* handleAnimationStart, the Sensor constructor / updateConfig and         *)
(* Sensor.trigger.  A StairAnimation holds the timeline of its             *)
(* configuration and the LedstripAnimation that initialize() built from a  *)
(* timeline; start() runs the latter.                                      *)
(***************************************************************************)
\* the names a request or a sensor may carry; no animation "extra" is loaded
RegNames == {"fade1", "fade2", "extra"}

\* the timelines a POST /animation/save may carry
SavedTimelines ==
    { <<[at |-> 0, duration |-> 500]>>,
      <<[at |-> 0, duration |-> 500], [at |-> 500, duration |-> 500]>> }

NoTimeline == <<>>

\* animationService.animations at startup: a StairAnimation per loaded name
LoadedRegistry ==
    [n \in RegNames |->
       IF n \in AnimNames
       THEN [present |-> TRUE, timeline |-> AnimConfig[n], animation |-> AnimConfig[n]]
       ELSE [present |-> FALSE, timeline |-> NoTimeline, animation |-> NoTimeline]]

\* animationService.animations.get(name): the name where there is an entry
RegistryGet(reg, name) == IF reg[name].present THEN name ELSE NoAnim

\* handleConfigurationSave after validation and writeFile: the fields of the
\* registered instance are replaced; for an unknown name the fields are set
\* on a fresh object ({}) that is not put into the registry
SaveConfig(reg, name, timeline) ==
    IF reg[name].present THEN [reg EXCEPT ![name].timeline = timeline] ELSE reg

\* StairAnimation.updateConfig -> initialize(): this.animation is built from
\* this.timeline
StairRebuild(entry) == [entry EXCEPT !.animation = entry.timeline]

RegInit ==
    /\ registry = LoadedRegistry
    /\ regSensor \in [SensorNames -> RegNames]
    /\ saved = [n \in RegNames |-> [done |-> FALSE, timeline |-> NoTimeline]]
    /\ regOp = [op |-> "init", name |-> NoAnim, ok |-> TRUE, ran |-> NoTimeline]
    /\ anim = NewAnimation(1000)
    /\ animOp = [op |-> "new", t |-> Null, activeTicks |-> 0]
    /\ DispIdle
    /\ LineIdle
    /\ PinIdle
    /\ BootIdle
    /\ ConIdle
    /\ AppIdle

\* Effects.handleConfigurationSave; ok: the validator accepts the
\* configuration and the file is written
RegSave ==
    /\ \E name \in RegNames, timeline \in SavedTimelines, ok \in BOOLEAN :
         /\ registry' = IF ok THEN SaveConfig(registry, name, timeline) ELSE registry
         /\ saved' = IF ok THEN [saved EXCEPT ![name] = [done |-> TRUE,
                                                         timeline |-> timeline]]
                     ELSE saved
         /\ regOp' = [op |-> "save", name |-> name, ok |-> ok, ran |-> NoTimeline]
    /\ UNCHANGED regSensor
    /\ UNCHANGED <<animVars, dispVars, lineVars, pinVars, bootVars, conVars, appVars>>

\* Effects.handleAnimationStart for a request that carries a config
RegHttpStart ==
    /\ \E name \in RegNames :
         LET found == RegistryGet(registry, name) # NoAnim
         IN  /\ registry' = IF found
                            THEN [registry EXCEPT ![name] = StairRebuild(@)]
                            ELSE registry
             /\ regOp' = [op |-> "httpStart", name |-> name, ok |-> found,
                          ran |-> IF found THEN registry'[name].animation
                                  ELSE NoTimeline]
    /\ UNCHANGED <<regSensor, saved>>
    /\ UNCHANGED <<animVars, dispVars, lineVars, pinVars, bootVars, conVars, appVars>>

\* Sensor.trigger of a sensor that is not active: this.anim.start() on the
\* instance found by the constructor or by updateConfig
RegSensorStart ==
    /\ \E s \in SensorNames :
         LET a == RegistryGet(registry, regSensor[s])
         IN  regOp' = [op |-> "sensorStart", name |-> regSensor[s], ok |-> a # NoAnim,
                       ran |-> IF a # NoAnim THEN registry[a].animation
                               ELSE NoTimeline]
    /\ UNCHANGED <<registry, regSensor, saved>>
    /\ UNCHANGED <<animVars, dispVars, lineVars, pinVars, bootVars, conVars, appVars>>

\* Sensor.updateConfig with a new triggerEffect
RegSensorUpdate ==
    /\ \E s \in SensorNames, name \in RegNames :
         /\ regSensor' = [regSensor EXCEPT ![s] = name]
         /\ regOp' = [op |-> "sensorUpdate", name |-> name,
                      ok |-> RegistryGet(registry, name) # NoAnim, ran |-> NoTimeline]
    /\ UNCHANGED <<registry, saved>>
    /\ UNCHANGED <<animVars, dispVars, lineVars, pinVars, bootVars, conVars, appVars>>

RegNext ==
    \/ RegSave
    \/ RegHttpStart
    \/ RegSensorStart
    \/ RegSensorUpdate

SpecRegistry == RegInit /\ [][RegNext]_vars

(***************************************************************************)
(* Construction of a TimelineAnimation: validateOptions and the            *)
(* constructor, applied to options records.  A value is a record of its    *)
(* JavaScript type and, for a number, its value; an array is a record of   *)
(* its items.                                                              *)
(***************************************************************************)
Undefined == [type |-> "undefined", value |-> 0, items |-> <<>>]
Number(n) == [type |-> "number", value |-> n, items |-> <<>>]
String == [type |-> "string", value |-> 0, items |-> <<>>]
Object == [type |-> "object", value |-> 0, items |-> <<>>]
Array(items) == [type |-> "array", value |-> 0, items |-> items]

\* the options a caller may pass
DurationOptions == {Undefined, String, Number(0 - 1), Number(0), Number(500)}
LedsOptions ==
    {Undefined, String, Array(<<>>), Array(<<1>>), Array(<<1, 2>>), Array(<<0>>),
     Array(<<0 - 1>>), Array(<<1, 0>>)}
BrightnessOptions == {Undefined, Number(0 - 1), Number(4095), Number(4096)}
MapperOptions == {Undefined, Object, String}
OptionChoices ==
    [duration : DurationOptions, leds : LedsOptions,
     brightness : BrightnessOptions, mapper : MapperOptions]

\* getValidationRules: ranges.brightness.max
MaxBrightness == 4095

\* nothing constructed
NoInstance == [done |-> FALSE, threw |-> FALSE, error |-> "none", duration |-> Null]

\* validateOptions: the error it throws, or "none"
validateOptions(o) ==
    IF o.duration.type = "undefined" \/ o.leds.type = "undefined" THEN "required"
    ELSE IF o.duration.type # "number" \/ o.leds.type # "array" THEN "type"
    ELSE IF o.duration.value < 0 THEN "range"
    ELSE IF /\ o.brightness.type = "number"
            /\ (o.brightness.value < 0 \/ o.brightness.value > MaxBrightness)
         THEN "range"
    ELSE IF o.mapper.type \notin {"undefined", "object"} THEN "mapper"
    ELSE "none"

\* new TimelineAnimation(options): validateOptions, then
\* this.duration = this.options.duration || this.calculateDuration(), where
\* calculateDuration of the base class throws
construct(o) ==
    LET error == validateOptions(o)
    IN  IF error # "none"
        THEN [done |-> TRUE, threw |-> TRUE, error |-> error, duration |-> Null]
        ELSE IF o.duration.value = 0
        THEN [done |-> TRUE, threw |-> TRUE, error |-> "calculateDuration",
              duration |-> Null]
        ELSE [done |-> TRUE, threw |-> FALSE, error |-> "none",
              duration |-> o.duration.value]

ConInit ==
    /\ options \in OptionChoices
    /\ created = NoInstance
    /\ anim = NewAnimation(1000)
    /\ animOp = [op |-> "new", t |-> Null, activeTicks |-> 0]
    /\ DispIdle
    /\ LineIdle
    /\ PinIdle
    /\ BootIdle
    /\ RegIdle
    /\ AppIdle

\* new TimelineAnimation(options)
Construct ==
    /\ ~created.done
    /\ created' = construct(options)
    /\ UNCHANGED options
    /\ UNCHANGED <<animVars, dispVars, lineVars, pinVars, bootVars, regVars, appVars>>

ConNext == Construct

SpecConstruct == ConInit /\ [][ConNext]_vars

(***************************************************************************)
(* SpecImmediate: a TimeLine that holds an item of duration 0 next to an   *)
(* ordinary one, started once and then ticked at increasing times, as the  *)
(* render loop of a running animation does.                                *)
(***************************************************************************)
\* an Immediate: a TimelineAnimation whose calculateDuration() returns 0, so
\* that options.duration || calculateDuration() is 0 in the constructor and in
\* setAbsolutePosition
NewImmediate == NewAnimation(0)

\* the times of the ticks of a running timeline
ImmediateTicks == {0, 250, 500, 750, 1000, 1500}

ImmediateInit ==
    /\ \E o1 \in Offsets, o2 \in Offsets, d \in ItemDurations :
         line = add(add(NewTimeLine, o1, 1, NewImmediate), o2, 2, NewAnimation(d))
    /\ lineOp = [op |-> "new", arg |-> Null]
    /\ anim = NewAnimation(1000)
    /\ animOp = [op |-> "new", t |-> Null, activeTicks |-> 0]
    /\ DispIdle
    /\ PinIdle
    /\ BootIdle
    /\ RegIdle
    /\ ConIdle
    /\ AppIdle

\* the start of the animation: timeline.setStartTime(now)
ImmediateStart ==
    /\ lineOp.op = "new"
    /\ \E t \in StartTimes :
         /\ line' = setStartTime(line, t)
         /\ lineOp' = [op |-> "setStartTime", arg |-> t]
    /\ UNCHANGED <<animVars, dispVars, pinVars, bootVars, regVars, conVars, appVars>>

\* one pass of the render loop: setCurrentPosition at a time after the start
\* and after the tick before
ImmediateTick ==
    /\ lineOp.op # "new"
    /\ \E t \in ImmediateTicks :
         /\ t >= line.startTime
         /\ lineOp.op = "setCurrentPosition" => t > line.currentPosition
         /\ line' = lineSetCurrentPosition(line, t)
         /\ lineOp' = [op |-> "setCurrentPosition", arg |-> t]
    /\ UNCHANGED <<animVars, dispVars, pinVars, bootVars, regVars, conVars, appVars>>

ImmediateNext == ImmediateStart \/ ImmediateTick

SpecImmediate == ImmediateInit /\ [][ImmediateNext]_vars

(***************************************************************************)
(* SpecThreshold: the sensors of the dispatcher under every operator and   *)
(* threshold the configuration may carry, fed with samples while time      *)
(* passes.                                                                 *)
(***************************************************************************)
\* the operators a sensor configuration may carry; processTrigger has cases
\* for the first three
Operators == {"<=", ">=", "==", "<", "!="}
Thresholds == {400, 500}

ThresholdTables ==
    { [A |-> [enabled |-> TRUE, triggerType |-> op, triggerThreshold |-> th,
              triggerEffect |-> "fade1"],
       B |-> [enabled |-> TRUE, triggerType |-> "<=", triggerThreshold |-> 500,
              triggerEffect |-> "fade2"]] : op \in Operators, th \in Thresholds }

ThresholdInit ==
    /\ now = 0
    /\ sensorCfg \in ThresholdTables
    /\ sensor = [s \in SensorNames |-> [active |-> FALSE, lastTriggered |-> Null]]
    /\ sensorTimer = [s \in SensorNames |-> Null]
    /\ strip = [n \in AnimNames |-> IdleStrip]
    /\ orphans = {}
    /\ current = NoAnim
    /\ appActive = FALSE
    /\ appTimer = Null
    /\ log = <<>>
    /\ starts = <<>>
    /\ requests = 0
    /\ lastOp = [op |-> "init", who |-> NoAnim, value |-> 0]
    /\ anim = NewAnimation(1000)
    /\ animOp = [op |-> "new", t |-> Null, activeTicks |-> 0]
    /\ LineIdle
    /\ PinIdle
    /\ BootIdle
    /\ RegIdle
    /\ ConIdle
    /\ AppIdle

ThresholdNext ==
    \/ Sample
    \/ SensorTimeout
    \/ LoopTick
    \/ Advance

SpecThreshold == ThresholdInit /\ [][ThresholdNext]_vars

(***************************************************************************)
(* SpecGate: the SENSOR_TRIGGERED gate of StairledApp with its timeout     *)
(* and the render loops.  Timeouts that are due and                        *)
(* loop iterations always run, and time passes as long as a timeout or a   *)
(* running animation waits for it.                                         *)
(***************************************************************************)
\* time passes, also beyond MaxTime while something waits for it
GateAdvance ==
    /\ ~LoopPending
    /\ \A t \in Deadlines : t > now
    /\ \/ now < MaxTime
       \/ Deadlines # {}
       \/ \E n \in AnimNames : strip[n].state = "RUNNING"
    /\ now' = LET next == now + StepMs
              IN  IF \E t \in Deadlines : t < next
                  THEN CHOOSE t \in Deadlines : \A u \in Deadlines : t <= u
                  ELSE next
    /\ lastOp' = Other
    /\ UNCHANGED <<sensor, sensorCfg, sensorTimer, strip, orphans, current, appActive,
                   appTimer, log, starts>>
    /\ UNCHANGED requests
    /\ UNCHANGED <<animVars, lineVars, pinVars, bootVars, regVars, conVars, appVars>>

GateNext ==
    \/ AppSensorTriggered
    \/ AppAnimFinished
    \/ LoopTick
    \/ GateAdvance

SpecGate ==
    /\ DispInit
    /\ [][GateNext]_vars
    /\ WF_vars(AppAnimFinished)
    /\ WF_vars(LoopTick)
    /\ WF_vars(GateAdvance)

(***************************************************************************)
(* SpecSensors: the sensors of StairledApp with their listeners on the     *)
(* event bus, samples, and SENSOR_REMOVED events.  A Sensor registers its  *)
(* sensordata listener in its constructor; no code removes a listener.     *)
(***************************************************************************)
\* sensor?.config?.name in the SENSOR_REMOVED handler: a Sensor copies the
\* fields of its configuration and keeps no `config`
ConfigName(s) == "undefined"

\* the names a SENSOR_REMOVED event may carry
RemovedNames == SensorNames

SensorsInit ==
    /\ now = 0
    /\ sensorCfg \in SensorTables
    /\ sensor = [s \in SensorNames |-> [active |-> FALSE, lastTriggered |-> Null]]
    /\ sensorTimer = [s \in SensorNames |-> Null]
    /\ strip = [n \in AnimNames |-> IdleStrip]
    /\ orphans = {}
    /\ current = NoAnim
    /\ appActive = FALSE
    /\ appTimer = Null
    /\ log = <<>>
    /\ starts = <<>>
    /\ requests = 0
    /\ lastOp = [op |-> "init", who |-> NoAnim, value |-> 0]
    /\ appSensors = SensorNames
    /\ listeners = SensorNames
    /\ removed = {}
    /\ testTimer = Null
    /\ anim = NewAnimation(1000)
    /\ animOp = [op |-> "new", t |-> Null, activeTicks |-> 0]
    /\ LineIdle
    /\ PinIdle
    /\ BootIdle
    /\ RegIdle
    /\ ConIdle

\* a sensordata event reaches the listener registered for its name
ListenerSample ==
    /\ Len(log) < MaxLog
    /\ \E s \in listeners, v \in SampleValues :
         /\ IF Triggers(sensorCfg[s], v) THEN Trigger(s, v)
            ELSE UNCHANGED <<sensor, sensorTimer, strip, starts, log>>
         /\ lastOp' = [op |-> "sample", who |-> s, value |-> v]
    /\ UNCHANGED <<now, sensorCfg, orphans, current, appActive, appTimer>>
    /\ UNCHANGED requests
    /\ UNCHANGED <<animVars, lineVars, pinVars, bootVars, regVars, conVars, appVars>>

\* StairledApp: the SENSOR_REMOVED handler,
\* this.sensors = this.sensors.filter(sensor => sensor?.config?.name !== device.name)
SensorRemoved ==
    /\ \E name \in RemovedNames :
         /\ name \notin removed
         /\ appSensors' = {s \in appSensors : ConfigName(s) # name}
         /\ removed' = removed \cup {name}
         /\ lastOp' = [op |-> "removed", who |-> name, value |-> 0]
    /\ UNCHANGED <<listeners, testTimer>>
    /\ UNCHANGED <<now, sensor, sensorCfg, sensorTimer, strip, orphans, current,
                   appActive, appTimer, log, starts, requests>>
    /\ UNCHANGED <<animVars, lineVars, pinVars, bootVars, regVars, conVars>>

SensorsNext ==
    \/ ListenerSample
    \/ SensorRemoved
    \/ SensorTimeout
    \/ LoopTick
    \/ Advance

SpecSensors == SensorsInit /\ [][SensorsNext]_vars

(***************************************************************************)
(* SpecSelfTest: the application after initPinMapper has scheduled the     *)
(* self-test, with the sensors and the render loops running while the      *)
(* timeout is pending.                                                     *)
(***************************************************************************)
\* setTimeout(() => pinMapper.test(), 5000)
SelfTestDelay == 5000

\* the pending timeouts, that of the self-test included
AllDeadlines == Deadlines \cup (IF testTimer # Null THEN {testTimer} ELSE {})

SelfTestInit ==
    /\ now = 0
    /\ sensorCfg \in SensorTables
    /\ sensor = [s \in SensorNames |-> [active |-> FALSE, lastTriggered |-> Null]]
    /\ sensorTimer = [s \in SensorNames |-> Null]
    /\ strip = [n \in AnimNames |-> IdleStrip]
    /\ orphans = {}
    /\ current = NoAnim
    /\ appActive = FALSE
    /\ appTimer = Null
    /\ log = <<>>
    /\ starts = <<>>
    /\ requests = 0
    /\ lastOp = [op |-> "init", who |-> NoAnim, value |-> 0]
    /\ appSensors = SensorNames
    /\ listeners = SensorNames
    /\ removed = {}
    /\ testTimer = now + SelfTestDelay
    /\ pinMapping = StoredMapping
    /\ lookupCache = NoLookup
    /\ brightnesses = [st \in StepInputs |-> Null]
    /\ duty = [dr \in Drivers |-> [i \in Pins |-> Off]]
    /\ installedBy = "setPinMapping"
    /\ pinOp = [op |-> "init", step |-> Null, value |-> 0, arg |-> <<>>,
                wrote |-> <<>>, threw |-> FALSE, again |-> FALSE]
    /\ anim = NewAnimation(1000)
    /\ animOp = [op |-> "new", t |-> Null, activeTicks |-> 0]
    /\ LineIdle
    /\ BootIdle
    /\ RegIdle
    /\ ConIdle

\* the self-test timeout fires: pinMapper.test()
SelfTest ==
    /\ testTimer # Null
    /\ testTimer <= now
    /\ testTimer' = Null
    /\ \E failing \in FailureChoices :
         Apply(test(PinState, failing), "test", Null, 0, <<>>)
    /\ lastOp' = [op |-> "selfTest", who |-> NoAnim, value |-> 0]
    /\ UNCHANGED <<appSensors, listeners, removed>>
    /\ UNCHANGED <<now, sensor, sensorCfg, sensorTimer, strip, orphans, current,
                   appActive, appTimer, log, starts, requests>>
    /\ UNCHANGED <<animVars, lineVars, bootVars, regVars, conVars>>

\* time passes up to the next timeout, also beyond MaxTime while the
\* self-test is pending
SelfTestAdvance ==
    /\ ~LoopPending
    /\ \A t \in AllDeadlines : t > now
    /\ now < MaxTime \/ testTimer # Null
    /\ now' = LET next == now + StepMs
              IN  IF \E t \in AllDeadlines : t < next
                  THEN CHOOSE t \in AllDeadlines : \A u \in AllDeadlines : t <= u
                  ELSE next
    /\ lastOp' = Other
    /\ UNCHANGED <<sensor, sensorCfg, sensorTimer, strip, orphans, current, appActive,
                   appTimer, log, starts>>
    /\ UNCHANGED requests
    /\ UNCHANGED <<animVars, lineVars, pinVars, bootVars, regVars, conVars, appVars>>

SelfTestNext ==
    \/ Sample
    \/ SensorTimeout
    \/ LoopTick
    \/ SelfTest
    \/ SelfTestAdvance

SpecSelfTest == SelfTestInit /\ [][SelfTestNext]_vars

(***************************************************************************)
(* SpecSave: POST /pca9685 (handleSavePinMapping) and setPinMapping with   *)
(* arguments of every shape, on a pin mapper whose channels are in use.    *)
(* A posted entry carries its fields with what typeof and Number.isInteger *)
(* say about them; `stored` is the configuration key pinmapper:mapping.    *)
(***************************************************************************)
\* an entry as posted: m is an object, m.driver a string, m.pin and m.step
\* integers, unless its flags say otherwise
Posted(step, driver, pin) ==
    [step |-> step, driver |-> driver, pin |-> pin, defined |-> TRUE,
     driverIsString |-> TRUE, pinIsInteger |-> TRUE, stepIsInteger |-> TRUE]

\* the values `mappings` of a request body, or the argument of a
\* setPinMapping call, may take
SaveBodies ==
    { [isArray |-> FALSE, entries |-> <<>>],
      [isArray |-> TRUE, entries |-> <<>>],
      [isArray |-> TRUE,
       entries |-> <<Posted(1, "0x40", 5), Posted(0, "0x40", 6)>>],
      [isArray |-> TRUE,
       entries |-> <<[Posted(1, "0x40", 2) EXCEPT !.driverIsString = FALSE],
                     [Posted(2, "0x40", 1) EXCEPT !.pinIsInteger = FALSE]>>],
      [isArray |-> TRUE,
       entries |-> <<Posted(2, "0x40", 16),
                     [Posted(1, "0x40", 3) EXCEPT !.stepIsInteger = FALSE],
                     [Posted(1, "0x40", 4) EXCEPT !.defined = FALSE]>>],
      [isArray |-> TRUE,
       entries |-> <<Posted(2, "0x41", 1), Posted(0 - 1, "0x40", 0),
                     Posted(1, "0x40", 0 - 1)>>] }

\* the filter of handleSavePinMapping without its test of m.step
ValidMappingAnyStep(m) ==
    /\ m.defined
    /\ m.driverIsString
    /\ m.pinIsInteger /\ m.pin >= 0 /\ m.pin <= PinCount - 1

\* handleSavePinMapping: the filter on the posted entries
ValidMapping(m) ==
    /\ m.defined
    /\ m.driverIsString
    /\ m.pinIsInteger /\ m.pin >= 0 /\ m.pin <= PinCount - 1
    /\ m.stepIsInteger /\ m.step > 0

\* the response: res.redirect('/pca9685'), res.status(400).json(...), or
\* what the server makes of an exception thrown by the handler
Redirect == "redirect"
BadRequest == "400"
ServerError == "exception"

\* what handleSavePinMapping leaves: the pin mapper, the stored mapping and
\* the status of the response
handleSavePinMapping(p, config, mappings, failing) ==
    IF ~mappings.isArray \/ Len(mappings.entries) = 0
    THEN [pins |-> p, config |-> config, status |-> BadRequest]
    ELSE LET validMappings == SelectSeq(mappings.entries, ValidMapping)
         IN  IF Len(validMappings) = 0
             THEN [pins |-> p, config |-> config, status |-> BadRequest]
             ELSE LET r == setPinMapping(p, validMappings, failing)
                  IN  IF r.threw
                      THEN [pins |-> r, config |-> config, status |-> ServerError]
                      ELSE [pins |-> r,
                            config |-> [isArray |-> TRUE, entries |-> validMappings],
                            status |-> Redirect]

\* PinMapper.setPinMapping for any argument: a non-array is refused
setAnyPinMapping(p, mapping, failing) ==
    IF ~mapping.isArray THEN p ELSE setPinMapping(p, mapping.entries, failing)

SaveInit ==
    /\ pinMapping = StoredMapping
    /\ lookupCache = NoLookup
    /\ brightnesses = [st \in StepInputs |-> Null]
    /\ duty = [dr \in Drivers |-> [i \in Pins |-> Off]]
    /\ installedBy = "setPinMapping"
    /\ pinOp = [op |-> "init", step |-> Null, value |-> 0, arg |-> <<>>,
                wrote |-> <<>>, threw |-> FALSE, again |-> FALSE]
    /\ stored = [isArray |-> TRUE, entries |-> StoredMapping]
    /\ bus = <<>>
    /\ scanAddr = Null
    /\ discoveredAddresses = <<>>
    /\ drivers = <<>>
    /\ bootMapping = <<>>
    /\ bootCache = <<>>
    /\ phase = "idle"
    /\ cleanupCompleted = FALSE
    /\ listening = FALSE
    /\ closeCalls = <<>>
    /\ bootOp = <<>>
    /\ anim = NewAnimation(1000)
    /\ animOp = [op |-> "new", t |-> Null, activeTicks |-> 0]
    /\ DispIdle
    /\ LineIdle
    /\ RegIdle
    /\ ConIdle
    /\ AppIdle

\* POST /pca9685
PostPinMapping ==
    /\ \E mappings \in SaveBodies, failing \in FailureChoices :
         LET r == handleSavePinMapping(PinState, stored, mappings, failing)
         IN  /\ Apply(r.pins, "postPinMapping", Null, r.status, mappings)
             /\ stored' = r.config
    /\ UNCHANGED <<bus, scanAddr, discoveredAddresses, drivers, bootMapping, bootCache,
                   phase, cleanupCompleted, listening, closeCalls, bootOp>>
    /\ UNCHANGED <<animVars, dispVars, lineVars, regVars, conVars, appVars>>

\* a caller of pinMapper.setPinMapping
CallSetPinMapping ==
    /\ \E mapping \in SaveBodies, failing \in FailureChoices :
         Apply(setAnyPinMapping(PinState, mapping, failing), "callSetPinMapping",
               Null, 0, mapping)
    /\ UNCHANGED bootVars
    /\ UNCHANGED <<animVars, dispVars, lineVars, regVars, conVars, appVars>>

SaveNext ==
    \/ PostPinMapping
    \/ CallSetPinMapping
    \/ PinSetBrightness

SpecSave == SaveInit /\ [][SaveNext]_vars

\* C1: at every moment at most one animation is running (started and neither
\* ended nor stopped), whoever asked for the start: Sensor.trigger, the
\* SENSOR_TRIGGERED handler or POST /animation/start.
C1_SingleFlight == RunningCount <= 1

\* C2: while sensor.active is true, a further sample for that sensor is
\* dropped: it changes neither the sensor nor the animations, it makes no
\* start call and writes no trigger record; and no step at all adds a start
\* call or a trigger record of a sensor that is active.
C2_Debounce ==
    [][\A s \in SensorNames : sensor[s].active =>
          /\ \A i \in DOMAIN log' : i > Len(log) => log'[i].sensorname # s
          /\ \A i \in DOMAIN starts' : i > Len(starts) => starts'[i].by # s
          /\ (lastOp'.op = "sample" /\ lastOp'.who = s)
                => UNCHANGED <<sensor, sensorTimer, strip, log, starts>>]_vars

\* C2, its case: threshold 500 with "<=", sample 400 accepted, then sample 300
\* while the sensor is still active: one start call and one trigger record,
\* carrying 400.
C2_SecondSampleDropped ==
    /\ sensorCfg["A"].triggerType = "<="
    /\ sensorCfg["A"].triggerThreshold = 500
    /\ lastOp = [op |-> "sample", who |-> "A", value |-> 300]
    /\ sensor["A"].active
    /\ Len(log) = 1
    /\ log[1].sensorname = "A"
    /\ log[1].sensorvalue = 400
    /\ starts = <<[by |-> "A", name |-> "fade1", at |-> log[1].at]>>

\* C3: when two sensors with different target animations both take a
\* triggering sample at the same time, exactly one start call is made and
\* exactly one trigger record is written for the two of them.
C3_OneOfTwo ==
    \A s, t \in SensorNames :
        ( /\ s # t
          /\ SensorAnim(s) # NoAnim
          /\ SensorAnim(t) # NoAnim
          /\ SensorAnim(s) # SensorAnim(t)
          /\ sensor[s].lastTriggered = now
          /\ sensor[t].lastTriggered = now )
        => /\ Cardinality({i \in DOMAIN starts : starts[i].at = now}) = 1
           /\ Cardinality({i \in DOMAIN log : log[i].at = now}) = 1

\* C4: a sensor configured with enabled = false drops every sample: it never
\* becomes active, never makes a start call, never writes a trigger record.
C4_DisabledDropped ==
    \A s \in SensorNames : ~sensorCfg[s].enabled =>
        /\ ~sensor[s].active
        /\ sensor[s].lastTriggered = Null
        /\ \A i \in DOMAIN log : log[i].sensorname # s
        /\ \A i \in DOMAIN starts : starts[i].by # s

C6_StartRejectedWhileRunning ==
    [][(RunningCount > 0 /\ lastOp'.op \in {"sample", "httpStart"})
          => (strip' = strip /\ orphans' = orphans)]_vars

\* round(n / d) for n >= 0, d > 0, halves up, in exact arithmetic
RoundHalfUp(n, d) == (2 * n + d) \div (2 * d)

C8_BeforeStartInactive ==
    (Ticked /\ animOp.t < anim.absoluteStart)
        => (anim.progress = 0 /\ ~anim.active)

\* C9: after every tick with absoluteStart <= now <= absoluteEnd of an armed
\* animation with duration > 0, active = TRUE and
\* progress = min(100, round(100 * (now - absoluteStart) / duration)).
C9_ProgressFormula ==
    (/\ Ticked
     /\ anim.duration > 0
     /\ animOp.t >= anim.absoluteStart
     /\ animOp.t <= anim.absoluteEnd)
        => (/\ anim.active
            /\ anim.progress =
                 Min(100, RoundHalfUp(100 * (animOp.t - anim.absoluteStart), anim.duration)))

\* C10: within one activation onStart() has run exactly once if the animation
\* has ever been active (started), and not at all otherwise; an active
\* animation has always been started.
C10_OnStartOnce ==
    /\ anim.onStartCalls = (IF anim.started THEN 1 ELSE 0)
    /\ anim.active => anim.started

\* C10 witness: a second active tick of the same activation, onStart() run once
C10_SecondActiveTick ==
    /\ animOp.op = "setCurrentPosition"
    /\ animOp.activeTicks >= 2
    /\ anim.active
    /\ anim.onStartCalls = 1

C12_DurationIsMax ==
    LET ends == {it.anim.relativeStart + it.anim.duration : it \in ItemSet(line)}
    IN  line.duration = IF ends = {} THEN 0
                        ELSE CHOOSE m \in ends : \A e \in ends : m >= e

\* C12, its case: the item added last ends before an item added earlier.
C12_ShorterAddedLast ==
    /\ lineOp.op = "add"
    /\ \E a, b \in ItemSet(line) :
         /\ a.id < b.id
         /\ \A c \in ItemSet(line) : c.id <= b.id
         /\ b.anim.relativeStart + b.anim.duration
               < a.anim.relativeStart + a.anim.duration

\* the steps of the installed mapping
MappedSteps == {pinMapping[i].step : i \in DOMAIN pinMapping}

\* C13: when setPinMapping returns, every channel of the mapping it replaced
\* has been written with duty 0 during the call, with no other value, and is
\* dark.
C13_PreviousChannelsDark ==
    [][(pinOp'.op \in {"setPinMapping", "savePinMapping"} /\ ~pinOp'.threw) =>
         \A i \in DOMAIN pinMapping :
            LET dr == NormalizeAddress(pinMapping[i].driver)
                pin == pinMapping[i].pin
                w == pinOp'.wrote
            IN  (dr \in Drivers /\ pin \in Pins) =>
                  /\ duty'[dr][pin] = Off
                  /\ \E k \in DOMAIN w : w[k].driver = dr /\ w[k].pin = pin
                  /\ \A k \in DOMAIN w :
                        (w[k].driver = dr /\ w[k].pin = pin) => w[k].off = 0]_vars

\* C13, its case: step 2 was set to 2000 on channel (0x40, 1), then a mapping
\* without step 2 was installed: the channel is dark.
C13_DroppedChannelDark ==
    /\ pinOp.op = "setPinMapping"
    /\ ~pinOp.threw
    /\ 2 \notin MappedSteps
    /\ brightnesses[2] = 2000
    /\ duty["0x40"][1] = Off

\* C14: once setPinMapping has installed a mapping, a setBrightness for one
\* of its steps writes to the channel that mapping gives the step and to no
\* other, whatever lookups were made before the swap.
C14_HotSwapRouting ==
    [][(/\ pinOp'.op = "setBrightness"
        /\ installedBy = "setPinMapping"
        /\ pinOp'.step \in MappedSteps) =>
         LET e == StepMap(pinMapping)[pinOp'.step]
             w == pinOp'.wrote
         IN  /\ \A k \in DOMAIN w :
                  /\ w[k].driver = NormalizeAddress(e.driver)
                  /\ w[k].pin = e.pin
             /\ lookupCache'.map = StepMap(pinMapping)]_vars

\* C14, its case: step 1 moved from (0x40, 0) to (0x40, 5); setBrightness(1,
\* 2000) wrote to (0x40, 5) and (0x40, 0) stays dark.
C14_WritesNewChannel ==
    /\ pinOp.op = "setBrightness"
    /\ pinOp.step = 1
    /\ installedBy = "setPinMapping"
    /\ 1 \in MappedSteps
    /\ StepMap(pinMapping)[1].pin = 5
    /\ pinOp.wrote = <<[driver |-> "0x40", pin |-> 5, on |-> 0, off |-> 2000]>>
    /\ duty["0x40"][5].off = 2000
    /\ duty["0x40"][0] = Off

\* C15: a setPinMapping(M) that follows a setPinMapping(M) changes neither
\* the devices nor the installed mapping nor the lookup nor the recorded
\* brightnesses.
C15_Idempotent ==
    [][(pinOp'.op = "setPinMapping" /\ pinOp'.again) =>
         /\ duty' = duty
         /\ pinMapping' = pinMapping
         /\ pinMapping' = pinOp'.arg
         /\ lookupCache' = lookupCache
         /\ brightnesses' = brightnesses]_vars

\* C15, its case: the same non-empty array was installed twice in a row.
C15_InstalledTwice ==
    /\ pinOp.op = "setPinMapping"
    /\ pinOp.again
    /\ Len(pinMapping) > 0
    /\ pinMapping = pinOp.arg

\* C16: in the installed mapping no step occurs twice and no (driver,
\* channel) occurs twice.
C16_Bijection ==
    \A i, j \in DOMAIN pinMapping : i # j =>
        /\ pinMapping[i].step # pinMapping[j].step
        /\ ~ ( /\ NormalizeAddress(pinMapping[i].driver)
                    = NormalizeAddress(pinMapping[j].driver)
               /\ pinMapping[i].pin = pinMapping[j].pin )

\* C17: setBrightness(step, v) for a step of the installed mapping makes one
\* write, on 0 and off min(max(v, 0), 4095), to the channel the mapping gives
\* the step, and records that value for the step.
C17_ClampedWrite ==
    [][(pinOp'.op = "setBrightness" /\ pinOp'.step \in MappedSteps) =>
         LET e == StepMap(pinMapping)[pinOp'.step]
             v == Min(Max(pinOp'.value, 0), MaxDuty)
         IN  /\ pinOp'.wrote = <<[driver |-> NormalizeAddress(e.driver),
                                  pin |-> e.pin, on |-> 0, off |-> v]>>
             /\ brightnesses'[pinOp'.step] = v]_vars

\* C18: setBrightness for a step that the installed mapping does not contain
\* writes to no device, leaves the recorded brightnesses alone and does not
\* throw.
C18_UnknownStepIgnored ==
    [][(pinOp'.op = "setBrightness" /\ pinOp'.step \notin MappedSteps) =>
         /\ pinOp'.wrote = <<>>
         /\ duty' = duty
         /\ brightnesses' = brightnesses
         /\ ~pinOp'.threw]_vars

\* C19: for every step of the installed mapping whose driver is registered,
\* getBrightness(step) is the duty of the step's channel.
C19_CacheCoherent ==
    \A st \in MappedSteps :
        LET e == StepMap(pinMapping)[st]
            dr == NormalizeAddress(e.driver)
        IN  (dr \in Drivers /\ e.pin \in Pins) =>
               getBrightness(PinState, st) = duty[dr][e.pin].off

\* C20: after setAllBrightness(0) the recorded brightness of every step is 0,
\* also of steps written under a mapping that has been replaced.
C20_AllOffClearsCache ==
    (pinOp.op = "setAllBrightness" /\ pinOp.value = 0) =>
        \A st \in StepInputs : getBrightness(PinState, st) = 0

\* C21: once startup has registered at least one driver with an empty stored
\* mapping, getMappedPin of a generated step (numbered from 0 as the ledIndex
\* keys, or from 1) returns the driver and channel generated for it.
C21_DefaultRoutable ==
    (/\ phase = "ready"
     /\ Len(drivers) > 0
     /\ Len(stored.entries) = 0
     /\ bootOp.op = "getMappedPin"
     /\ bootOp.step \in 0..(PinCount * Len(drivers) - 1))
    => /\ ~bootOp.threw
       /\ \E base \in {0, 1} :
            /\ bootOp.step >= base
            /\ bootOp.result.driver = drivers[((bootOp.step - base) \div PinCount) + 1]
            /\ bootOp.result.pin = (bootOp.step - base) % PinCount

\* C22: the addresses discoverDevices has collected are, in ascending order,
\* exactly the addresses scanned so far that are not 0x70 and whose MODE1
\* read delivered a byte of at most 0x7F; at the end of the scan this is its
\* return value, whatever failed on the way.
C22_DiscoveredExactly ==
    /\ \A a \in Addresses :
          (\E i \in DOMAIN discoveredAddresses : discoveredAddresses[i] = Hex(a))
          <=> /\ a < scanAddr
              /\ a # 112
              /\ bus[a].kind = "value"
              /\ bus[a].mode1 <= 127
    /\ \A i, j \in DOMAIN discoveredAddresses :
          i < j => ParseHex(discoveredAddresses[i]) < ParseHex(discoveredAddresses[j])

\* C22 witness: a finished scan in which new Wire() threw at 0x40, a device
\* answered at 0x70 and the device at 0x7F was still found.
C22_FoundAfterFailure ==
    /\ scanAddr > MaxAddress
    /\ bus[64].kind = "throw"
    /\ bus[112] = [kind |-> "value", mode1 |-> 0]
    /\ bus[127] = [kind |-> "value", mode1 |-> 127]
    /\ discoveredAddresses = <<"0x7f">>

\* the steps in which exitHandler or cleanup was invoked
CleanupOps == ProcessEvents \cup {"exitHandler", "cleanup"}

\* C23: the cleanup that runs first calls close() on every registered driver,
\* three times on a driver whose close() keeps failing, and as often as it
\* takes (one call more than the failures) on every other driver.
C23_ThreeAttempts ==
    (bootOp.op \in CleanupOps /\ ~bootOp.late)
    => \A dr \in DriverSet(drivers) :
          bootOp.closed[dr] = IF bootOp.fails[dr] >= 3 THEN 3
                              ELSE bootOp.fails[dr] + 1

\* C24: once cleanup has completed, no step calls close() on any driver again
\* (no bus handle is ever held: this.wire stays null).
C24_CleanupOnce == [][cleanupCompleted => closeCalls' = closeCalls]_vars

\* C24 witness: cleanup was called again after a cleanup that had closed a
\* driver.
C24_SecondCleanup ==
    /\ cleanupCompleted
    /\ bootOp.op = "cleanup"
    /\ bootOp.late
    /\ \E dr \in ProbedDrivers : closeCalls[dr] > 0

\* C25: right after a successful save under a name the registry holds the
\* saved timeline under that name, and every start of a name that has been
\* saved, over HTTP or by a sensor, runs the timeline saved last.
C25_SavedIsServed ==
    /\ (regOp.op = "save" /\ regOp.ok)
       => /\ RegistryGet(registry, regOp.name) = regOp.name
          /\ registry[regOp.name].timeline = saved[regOp.name].timeline
    /\ (regOp.op \in {"httpStart", "sensorStart"} /\ saved[regOp.name].done)
       => /\ regOp.ok
          /\ regOp.ran = saved[regOp.name].timeline

\* C26: a sample that meets the threshold of a sensor whose triggerEffect is
\* not a registered animation starts nothing (no LedstripAnimation changes
\* state, no start is made, so nothing is rendered) and runs to the end of
\* Sensor.trigger: when the sensor was not active the miss is recorded as one
\* log record carrying the unknown name.
C26_MissingAnimationInert ==
    [][(/\ lastOp'.op = "sample"
        /\ sensorCfg[lastOp'.who].triggerEffect \notin AnimNames
        /\ Triggers(sensorCfg[lastOp'.who], lastOp'.value))
       => /\ strip' = strip
          /\ starts' = starts
          /\ orphans' = orphans
          /\ ~sensor[lastOp'.who].active
               => /\ Len(log') = Len(log) + 1
                  /\ log'[Len(log')].effect = sensorCfg[lastOp'.who].triggerEffect
                  /\ sensor'[lastOp'.who].active]_vars

\* C26 witness: a sample has just triggered a sensor whose animation is not
\* registered.
C26_TriggeredWithoutAnimation ==
    /\ lastOp.op = "sample"
    /\ sensorCfg[lastOp.who].triggerEffect \notin AnimNames
    /\ Triggers(sensorCfg[lastOp.who], lastOp.value)
    /\ Len(log) > 0
    /\ log[Len(log)].sensorname = lastOp.who
    /\ log[Len(log)].at = now

\* C27: a constructor call whose leds option is an empty array, or an array
\* with an element that is not a positive integer, throws and leaves no
\* instance.
C27_LedsValidated ==
    (/\ created.done
     /\ options.leds.type = "array"
     /\ \/ Len(options.leds.items) = 0
        \/ \E i \in DOMAIN options.leds.items : options.leds.items[i] < 1)
    => /\ created.threw
       /\ created.duration = Null

\* C28: in a timeline that was started and is ticked at increasing times, an
\* item of duration 0 that has ended was reported active on a tick before
\* (started is set on the first tick that finds the item active).
C28_ImmediateRendered ==
    \A i \in DOMAIN getAllItems(line) :
       LET a == getAllItems(line)[i].anim
       IN  (lineOp.op = "setCurrentPosition" /\ a.duration = 0 /\ a.ended)
           => a.started

\* C29: every duty value handed to a PCA9685 channel by the last call, and
\* every duty value a channel holds, lies in 0..4095.
C29_DutyInRange ==
    /\ \A i \in DOMAIN pinOp.wrote :
          pinOp.wrote[i].on \in 0..4095 /\ pinOp.wrote[i].off \in 0..4095
    /\ \A dr \in Drivers, i \in Pins :
          duty[dr][i].on \in 0..4095 /\ duty[dr][i].off \in 0..4095

\* C30: a sample for a sensor that is not active triggers it (a log record
\* is written for it) exactly when the configured comparison holds: "<=" and
\* value <= threshold, ">=" and value >= threshold, or "==" and value =
\* threshold; under any other operator it never does.
C30_ThresholdExact ==
    [][(lastOp'.op = "sample" /\ ~sensor[lastOp'.who].active)
       => LET cfg == sensorCfg[lastOp'.who]
              v   == lastOp'.value
          IN  (/\ Len(log') = Len(log) + 1
               /\ log'[Len(log')].sensorname = lastOp'.who
               /\ sensor'[lastOp'.who].active)
              <=> \/ cfg.triggerType = "<=" /\ v <= cfg.triggerThreshold
                  \/ cfg.triggerType = ">=" /\ v >= cfg.triggerThreshold
                  \/ cfg.triggerType = "==" /\ v = cfg.triggerThreshold]_vars

\* C30 witness: after a trigger of the other sensor, a sample below the
\* threshold of a sensor configured with "<" has left that sensor alone.
C30_OtherOperatorIgnored ==
    /\ lastOp.op = "sample"
    /\ sensorCfg[lastOp.who].triggerType = "<"
    /\ lastOp.value < sensorCfg[lastOp.who].triggerThreshold
    /\ ~sensor[lastOp.who].active
    /\ Len(log) > 0

\* C31: within one activation (no reset in between) the lifecycle flags are
\* monotonic: started stays true once set, ended is true only when started
\* is, and ended stays true once set.
C31_LifecycleMonotonic ==
    [][animOp'.op # "reset"
       => /\ anim.started => anim'.started
          /\ anim'.ended => anim'.started
          /\ anim.ended => anim'.ended]_vars

\* C32: TimeLine.reset() leaves every item with progress 0, the three flags
\* false and the absolute times cleared, keeps the items, their offsets and
\* durations and the container's duration, and after it a setStartTime(t1)
\* followed by ticks shows, relative to t1, what the items showed in their
\* first run, onStart calls included.
C32_ResetReplays ==
    [][lineOp'.op = "reset"
       => /\ \A item \in ItemSet(line') :
               /\ item.anim.progress = 0
               /\ ~item.anim.active /\ ~item.anim.ended /\ ~item.anim.started
               /\ item.anim.absoluteStart = 0
               /\ item.anim.absoluteEnd = Null
               /\ item.anim.absoluteCurrent = Null
          /\ DOMAIN line'.queue = DOMAIN line.queue
          /\ \A k \in DOMAIN line.queue :
               /\ Len(line'.queue[k]) = Len(line.queue[k])
               /\ \A i \in DOMAIN line.queue[k] :
                    /\ line'.queue[k][i].id = line.queue[k][i].id
                    /\ line'.queue[k][i].anim.duration = line.queue[k][i].anim.duration
                    /\ line'.queue[k][i].anim.relativeStart = k
          /\ line'.duration = line.duration
          /\ \A t0 \in StartTimes, t1 \in StartTimes, d1 \in Deltas, d2 \in Deltas :
               RunFrom(line', t1, <<d1, d2>>) = RunFrom(AsAdded(line), t0, <<d1, d2>>)]_vars

\* C32 witness: a timeline with items at two offsets has been reset after a tick that followed
\* its start (reset() leaves diff as that tick set it).
C32_ResetAfterRun ==
    /\ lineOp.op = "reset"
    /\ Cardinality(DOMAIN line.queue) = 2
    /\ line.diff > 0
    /\ line.startTime = Null

\* C33: right after setStartTime(t0) the container's startTime is t0 and
\* every item, added with offset o, has absoluteStart = t0 + o and
\* absoluteEnd = t0 + o + its duration.
C33_ItemsArmed ==
    lineOp.op = "setStartTime"
    => /\ line.startTime = lineOp.arg
       /\ \A item \in ItemSet(line) :
            /\ item.anim.absoluteStart = lineOp.arg + item.anim.relativeStart
            /\ item.anim.absoluteEnd
                 = lineOp.arg + item.anim.relativeStart + item.anim.duration

\* C33 witness: a timeline holding an item at a later offset has been started
\* at a time other than 0.
C33_OffsetItemArmed ==
    /\ lineOp.op = "setStartTime"
    /\ lineOp.arg > 0
    /\ \E item \in ItemSet(line) : item.anim.relativeStart > 0

\* C34: whatever the order of setAbsolutePosition, setCurrentPosition and
\* reset calls and whatever their times, progress is an integer from 0 to 100.
C34_ProgressInRange == anim.progress \in 0..100

\* C34 witness: an active animation was armed again at a later start and
\* ticked before that start, where the progress expression is negative.
C34_TickBeforeNewStart ==
    /\ animOp.op = "setCurrentPosition"
    /\ anim.active
    /\ animOp.t < anim.absoluteStart
    /\ ProgressAt(anim.duration, animOp.t - anim.absoluteStart) < 0

\* C35: a duration declared in the options, 0 included, is used as it is:
\* the constructor does not invoke calculateDuration() for it and the
\* instance carries the declared value.
C35_DeclaredDurationUsed ==
    (/\ created.done
     /\ options.duration.type = "number"
     /\ validateOptions(options) = "none")
    => /\ created.error # "calculateDuration"
       /\ created.duration = options.duration.value

\* C36: the lookup cache, once built, agrees with the installed mapping, and
\* getMappedPin(step) throws exactly for a step the installed mapping does
\* not contain.
C36_CacheFresh ==
    /\ lookupCache.built => lookupCache.map = StepMap(pinMapping)
    /\ pinOp.op = "getMappedPin"
         => (pinOp.threw
              <=> pinOp.step \notin {pinMapping[i].step : i \in DOMAIN pinMapping})

\* C37: whenever the SENSOR_TRIGGERED handler has set app.active, the flag
\* is eventually reset to false.
C37_GateReleased == appActive ~> ~appActive

\* C38: once a SENSOR_REMOVED event has been handled for a sensor, a sample
\* for that sensor starts no animation and records no trigger.
C38_RemovedSensorSilent ==
    [][(lastOp'.op = "sample" /\ lastOp'.who \in removed)
       => (starts' = starts /\ log' = log)]_vars

\* C39: when the startup self-test has just run, no animation is running
\* (started and not yet past its end).
C39_SelfTestWhenIdle ==
    lastOp.op = "selfTest"
    => \A n \in AnimNames : ~(strip[n].state = "RUNNING" /\ now <= strip[n].end)

\* C40: a POST /pca9685 whose `mappings` is an array holding an entry with
\* a string driver, an integer pin from 0 to 15 and an integer step above 0
\* installs, when the call returns, a mapping all of whose entries are such;
\* any other request is answered with an error and leaves the installed
\* mapping, the device outputs and the stored mapping as they were; and
\* setPinMapping with a non-array changes nothing.
C40_SaveValidOrNothing ==
    [][/\ pinOp'.op = "postPinMapping"
          => LET body == pinOp'.arg
                 good(m) == /\ m.defined /\ m.driverIsString
                            /\ m.pinIsInteger /\ m.pin \in 0..15
                            /\ m.stepIsInteger /\ m.step > 0
             IN  IF body.isArray /\ \E i \in DOMAIN body.entries : good(body.entries[i])
                 THEN ~pinOp'.threw
                        => /\ pinOp'.value = Redirect
                           /\ Len(pinMapping') > 0
                           /\ \A i \in DOMAIN pinMapping' : good(pinMapping'[i])
                           /\ stored' = [isArray |-> TRUE, entries |-> pinMapping']
                 ELSE /\ pinOp'.value = BadRequest
                      /\ pinMapping' = pinMapping
                      /\ duty' = duty
                      /\ stored' = stored
       /\ (pinOp'.op = "callSetPinMapping" /\ ~pinOp'.arg.isArray)
          => /\ pinMapping' = pinMapping
             /\ duty' = duty
             /\ lookupCache' = lookupCache
             /\ stored' = stored]_vars

\* C40 witness: a request mixing a valid and an invalid entry has installed
\* the valid one alone, on a pin mapper that had a channel lit before.
C40_InvalidFilteredOut ==
    /\ pinOp.op = "postPinMapping"
    /\ pinOp.value = Redirect
    /\ Len(pinOp.arg.entries) > Len(pinMapping)
    /\ \E st \in StepInputs : brightnesses[st] # Null /\ brightnesses[st] > 0

====
